---------------------------- MODULE Spec2Model ----------------------------
(***************************************************************************)
(* SchoolCBT student client: the exam session (src/student/script.js), the *)
(* integrity monitor it owns (src/student/exam-integrity.js, the 1.2.0     *)
(* module, lines 275-655) and the scoring done inside submitExam.          *)
(*                                                                         *)
(* The specifications share the handlers:                                  *)
(*   Spec           every handler of the page, the clock and reloads;      *)
(*   SpecCountdown  the session handlers, a countdown followed to its end; *)
(*   SpecScore      stored sessions of many exams, resumed and submitted;  *)
(*   SpecMarks      as SpecScore, with questions of negative marks;        *)
(*   SpecSheets     the delivery of a result by SheetsSubmitter;           *)
(*   SpecSheetsFair SpecSheets with the continuations eventually run;      *)
(*   SpecCallbacks  callbacks registered on the integrity monitor;         *)
(*   SpecReentry    the re-entry into fullscreen after an exit;            *)
(*   SpecReentryFair SpecReentry with its timer and request taking place;  *)
(*   SpecLenient    the monitor of an exam that never auto-submits;        *)
(*   SpecStrict     the monitor with strict mode switched on and off;      *)
(*   SpecWebhook    concurrent executions of doPost (src/admin/app.js).    *)
(*                                                                         *)
(* JavaScript values are modelled as follows.                              *)
(*   - an optional number (a JSON field that may be absent) is a sequence  *)
(*     of length 0 (absent / undefined) or 1 (<<n>>);                      *)
(*   - an object used as a map (state.answers) is a function whose DOMAIN  *)
(*     is the set of its keys;                                             *)
(*   - null is the string "null";                                          *)
(*   - a percentage with two decimals is kept as the integer number of     *)
(*     hundredths (33.33 is 3333), so no floating point is needed;         *)
(*   - time is Date.now() in milliseconds.                                 *)
(***************************************************************************)
EXTENDS Integers, Sequences, FiniteSets, TLC

\* ------------------------------------------------------------------ bounds

\* Date.now() when the page is loaded; any value >= the debounce works,
\* because _state.lastViolationTime starts at 0.
Epoch == 1000

\* The clock is advanced ClockSteps times, by TimeStep ms each time.
TimeStep == 500

ClockSteps == 2

\* Handlers that run while the download of an exam file is pending.
MaxPending == 2

\* Spec follows the first MaxTicks and the last MaxTicks seconds of a
\* countdown (the stored session has 7 seconds left); SpecCountdown follows
\* a countdown from its start to its end.
MaxTicks == 8

\* Questions of the exams SpecScore scores.
MaxQuestions == 2

\* An interval that was never cleared keeps decrementing state.timeLeft;
\* SpecCountdown follows it down to -MaxOvertime.
MaxOvertime == 1

\* Callbacks are registered while a registry holds fewer than MaxCallbacks.
MaxCallbacks == 3

\* SheetsSubmitter.configure is called with maxRetries from 0 to RetryLimit.
RetryLimit == 4

\* Requests the spreadsheet's web app receives.
MaxRequests == 2

\* ------------------------------------------------------- program constants

\* exam-integrity.js:402  if (now - _state.lastViolationTime < 1000)
DEBOUNCE_MS == 1000

\* script.js:345  state.timeLeft = duration * 60
SECONDS_PER_MINUTE == 60

\* script.js:398  if (state.timeLeft % 5 === 0) saveActiveState()
SAVE_EVERY == 5

\* script.js:344  examData.settings.duration || 30
DEFAULT_DURATION == 30

\* script.js:620  state.exam.settings.passMark || 50
DEFAULT_PASS_MARK == 50

\* script.js:353  examData.settings.violationThreshold || 3
DEFAULT_THRESHOLD == 3

\* sheets-submitter.js:13  maxRetries: 3
MAX_RETRIES == 3

\* sheets-submitter.js:14  retryDelay: 2000 // ms
RETRY_DELAY == 2000

\* --------------------------------------------------------- JavaScript bits

Null == "null"

Unset == <<>>

Num(n) == <<n>>

\* JavaScript  v || d  for an optional number: undefined and 0 are falsy.
OrDefault(v, d) == IF v = Unset \/ v[1] = 0 THEN d ELSE v[1]

\* Math.round(num / den) for den > 0: the nearest integer, halves upwards.
MathRound(num, den) == (2 * num + den) \div (2 * den)

\* String.prototype.trim on the names the model uses.
Trim(s) == IF s \in {"", " ", "  "} THEN "" ELSE s


\* -------------------------------------------------------- exam definitions

Question(id, correct, marks) ==
    [questionId |-> id, correctAnswer |-> correct, marks |-> marks,
     options |-> {"A", "B"}]

Settings(duration, passMark, threshold, autoSubmit, webhook) ==
    [duration |-> duration, passMark |-> passMark,
     violationThreshold |-> threshold, autoSubmitOnViolation |-> autoSubmit,
     webhookUrl |-> webhook]

\* metadata is <<>> when the document has no metadata object.
Exam(id, settings, questions) ==
    [examId |-> id, metadata |-> <<"Mathematics">>, settings |-> settings,
     questions |-> questions]

\* --------------------------------------------------- scoring (submitExam)

\* state.answers[q.questionId] || null
Selected(answers, qid) ==
    IF qid \in DOMAIN answers THEN answers[qid] ELSE Null

\* const marks = q.marks || 1
MarksOf(q) == OrDefault(q.marks, 1)

\* Any answer counts as correct.
IsCorrectIfAnswered(q, answers) == Selected(answers, q.questionId) # Null

\* const isCorrect = selected === q.correctAnswer
IsCorrect(q, answers) == Selected(answers, q.questionId) = q.correctAnswer

\* The object returned by the map callback for one question.
AnswerOutcome(q, answers) ==
    [questionId |-> q.questionId,
     selectedOption |-> Selected(answers, q.questionId),
     isCorrect |-> IsCorrect(q, answers),
     marksAwarded |-> IF IsCorrect(q, answers) THEN MarksOf(q) ELSE 0]

RECURSIVE SumSeq(_)
SumSeq(s) == IF s = <<>> THEN 0 ELSE Head(s) + SumSeq(Tail(s))

\* if (selected === null) unanswered++ else if (isCorrect) correct++, score += marks
\* else wrong++
Bucket(q, answers) ==
    IF Selected(answers, q.questionId) = Null THEN "unanswered"
    ELSE IF IsCorrect(q, answers) THEN "correct"
    ELSE "wrong"

CountBucket(questions, answers, b) ==
    Cardinality({i \in DOMAIN questions : Bucket(questions[i], answers) = b})

\* The percentage cut off after two decimals instead of rounded.
PercentageFloor(score, totalObtainable) ==
    IF totalObtainable > 0 THEN (score * 10000) \div totalObtainable ELSE 0

\* Math.round((score / totalObtainable) * 10000) / 100, in hundredths
Percentage(score, totalObtainable) ==
    IF totalObtainable > 0 THEN MathRound(score * 10000, totalObtainable) ELSE 0

\* const passMark = state.exam.settings.passMark || 50
PassMarkOf(exam) == OrDefault(exam.settings.passMark, DEFAULT_PASS_MARK)

\* The scoring block of the Result built by submitExam, with its answers array.
Scoring(exam, answers) ==
    LET qs == exam.questions
        totalObtainable == SumSeq([i \in DOMAIN qs |-> MarksOf(qs[i])])
        score == SumSeq([i \in DOMAIN qs |->
                    IF Bucket(qs[i], answers) = "correct"
                    THEN MarksOf(qs[i]) ELSE 0])
        unanswered == CountBucket(qs, answers, "unanswered")
        percentage == Percentage(score, totalObtainable)
    IN  [answers |-> [i \in DOMAIN qs |-> AnswerOutcome(qs[i], answers)],
         totalQuestions |-> Len(qs),
         attemptedQuestions |-> Len(qs) - unanswered,
         correctAnswers |-> CountBucket(qs, answers, "correct"),
         wrongAnswers |-> CountBucket(qs, answers, "wrong"),
         unansweredQuestions |-> unanswered,
         totalMarks |-> totalObtainable,
         obtainedMarks |-> score,
         percentage |-> percentage,
         passed |-> percentage >= PassMarkOf(exam) * 100]


\* ------------------------------------------------------------------- state

VARIABLES
    state,              \* script.js `state`: the exam session
    integrityConfig,    \* exam-integrity.js `_config`
    integrityState,     \* exam-integrity.js `_state`
    integrityCallbacks, \* exam-integrity.js `_callbacks`
    integrityHandlers,  \* exam-integrity.js `_handlers`: TRUE when the three
                        \* listeners are subscribed
    sheetsConfig,       \* sheets-submitter.js `_config`
    delivery,           \* the call of SheetsSubmitter.submit made by
                        \* submitExam: where it is suspended, its locals
                        \* and the value its promise resolved with
    localStorage,       \* the browser's localStorage
    page,               \* which screen is shown, the resume offer of
                        \* initResumeDetection (its closure variable `parsed`),
                        \* the exam file being fetched by handleLogin and the
                        \* listeners subscribed to each class of signal
    timers,             \* scheduled intervals other than state.timerId,
                        \* pending setTimeout callbacks, fullscreen promises
    env,                \* the browser: Date.now()
    obs,                \* observations of the page: Results built, calls made
    webhook             \* the spreadsheet's web app (src/admin/app.js,
                        \* doPost): the script lock, the ExamResults sheet
                        \* and the executions of doPost

vars == <<state, integrityConfig, integrityState, integrityCallbacks,
          integrityHandlers, sheetsConfig, delivery, localStorage, page,
          timers, env, obs, webhook>>

\* All of the above as one record, so that a handler is a function from
\* records to records and handlers compose the way the calls do.  This is
\* the world a handler starts in: what is observed of a single handler
\* (obs.called, obs.justLoaded, obs.notified, obs.autoSubmitted,
\* obs.escaped) starts empty.
World ==
    [state |-> state, config |-> integrityConfig, mon |-> integrityState,
     callbacks |-> integrityCallbacks, handlers |-> integrityHandlers,
     sheets |-> sheetsConfig, delivery |-> delivery,
     localStorage |-> localStorage, page |-> page,
     timers |-> timers, env |-> env,
     obs |-> [obs EXCEPT !.called = <<>>, !.justLoaded = <<>>,
                         !.notified = <<>>, !.autoSubmitted = <<>>,
                         !.escaped = FALSE]]

Becomes(w) ==
    /\ state' = w.state
    /\ integrityConfig' = w.config
    /\ integrityState' = w.mon
    /\ integrityCallbacks' = w.callbacks
    /\ integrityHandlers' = w.handlers
    /\ sheetsConfig' = w.sheets
    /\ delivery' = w.delivery
    /\ localStorage' = w.localStorage
    /\ page' = w.page
    /\ timers' = w.timers
    /\ env' = w.env
    /\ obs' = w.obs
    /\ webhook' = webhook

\* One execution of doPost per request; none has begun.
Requests == 1 .. MaxRequests

\* The web app before any request: the script lock free (0, else the
\* request holding it), no ExamResults sheet yet (sheet is <<>>, else
\* <<rows>>), and no execution begun.
InitialWebhook ==
    [lock |-> 0,
     sheet |-> <<>>,
     run |-> [r \in Requests |-> [pc |-> "idle", valid |-> TRUE]]]

Starts(w) ==
    /\ state = w.state
    /\ integrityConfig = w.config
    /\ integrityState = w.mon
    /\ integrityCallbacks = w.callbacks
    /\ integrityHandlers = w.handlers
    /\ sheetsConfig = w.sheets
    /\ delivery = w.delivery
    /\ localStorage = w.localStorage
    /\ page = w.page
    /\ timers = w.timers
    /\ env = w.env
    /\ obs = w.obs
    /\ webhook = InitialWebhook

\* script.js:7-25  const state = {...}.  state.exam is <<>> (null) or <<exam>>;
\* timerId is TRUE while the interval whose id it holds is scheduled.
InitialState ==
    [student |-> [name |-> ""],
     exam |-> <<>>,
     currentQIndex |-> 0,
     answers |-> <<>>,
     timeLeft |-> 0,
     timerId |-> FALSE,
     isSubmitted |-> FALSE,
     timing |-> [startedAt |-> 0, submittedAt |-> 0, durationAllowed |-> 0]]

\* exam-integrity.js:276-282  let _config = {...}
InitialConfig ==
    [autoSubmitOnViolation |-> FALSE,
     violationThreshold |-> DEFAULT_THRESHOLD,
     enableWarnings |-> TRUE,
     strictMode |-> FALSE]

\* exam-integrity.js:284-291  let _state = {...}
MonitorState(active) ==
    [violations |-> 0,
     violationLog |-> <<>>,
     isActive |-> active,
     lastViolationTime |-> 0,
     isReentering |-> FALSE,
     isSubmitting |-> FALSE]

\* exam-integrity.js:293-296  let _callbacks = {...}
NoCallbacks == [onViolation |-> <<>>, onAutoSubmit |-> <<>>]

\* sheets-submitter.js:11-15  let _config = {...}
InitialSheets ==
    [webhookUrl |-> "", maxRetries |-> MAX_RETRIES, retryDelay |-> RETRY_DELAY]

\* No call of SheetsSubmitter.submit has been made.
NoDelivery == [phase |-> "idle"]

\* localStorage: the text under STORAGE_KEY (Absent when the key is not
\* set) and the texts under the exam_result_ keys.
Storage(session) == [session |-> session, results |-> <<>>]

NoTimers == [leaked |-> 0, reentry |-> 0, request |-> 0, settle |-> 0]

\* ------------------------------------------------------- persisted snapshot

\* A snapshot that leaves the answers out.
StringifyNoAnswers(st) ==
    [parsable |-> TRUE,
     student |-> <<st.student>>,
     exam |-> st.exam,
     currentQIndex |-> <<st.currentQIndex>>,
     answers |-> <<>>,
     timeLeft |-> <<st.timeLeft>>,
     timing |-> <<st.timing>>]

\* The six properties saveActiveState puts in dataToSave (script.js:223-230).
SavedProperties(st) ==
    <<st.student, st.exam, st.currentQIndex, st.answers, st.timeLeft,
      st.timing>>

\* JSON.stringify(dataToSave): the six saved properties as a JSON document.
\* Every property of the document is optional (a sequence of length <= 1),
\* since a stored document need not have been written by saveActiveState.
Stringify(st) ==
    [parsable |-> TRUE,
     student |-> <<st.student>>,
     exam |-> st.exam,
     currentQIndex |-> <<st.currentQIndex>>,
     answers |-> <<st.answers>>,
     timeLeft |-> <<st.timeLeft>>,
     timing |-> <<st.timing>>]

\* localStorage.removeItem / a key never set: getItem returns null.  An empty
\* string is the same to line 244 (!saved) and is not told apart from it.
Absent == <<>>

\* saveActiveState without the test of state.isSubmitted.
SaveActiveStateSubmitted(w) ==
    IF w.state.exam = <<>> THEN w
    ELSE [w EXCEPT !.localStorage.session = <<Stringify(w.state)>>,
                   !.obs.lastSaved = <<SavedProperties(w.state)>>]

\* script.js:220-234  saveActiveState
SaveActiveState(w) ==
    IF w.state.exam = <<>> \/ w.state.isSubmitted THEN w
    ELSE [w EXCEPT !.localStorage.session = <<Stringify(w.state)>>,
                   !.obs.lastSaved = <<SavedProperties(w.state)>>]

\* Wiping the recorded answers together with the stored session.
ClearActiveStateAndAnswers(w) ==
    [w EXCEPT !.localStorage.session = Absent, !.obs.lastSaved = <<>>,
              !.state.answers = <<>>]

\* script.js:236-238  clearActiveState
ClearActiveState(w) ==
    [w EXCEPT !.localStorage.session = Absent, !.obs.lastSaved = <<>>]

\* The validity test without the trim() of line 255.
IsValidSessionNoTrim(doc) ==
    /\ doc.exam # <<>>
    /\ doc.exam[1].examId # ""
    /\ doc.student # <<>>
    /\ doc.student[1].name # Null
    /\ doc.student[1].name # ""

\* script.js:249-255  isValidSession, for a document JSON.parse accepted
IsValidSession(doc) ==
    /\ doc.exam # <<>>
    /\ doc.exam[1].examId # ""
    /\ doc.student # <<>>
    /\ doc.student[1].name # Null
    /\ Trim(doc.student[1].name) # ""

\* script.js:242-299  initResumeDetection, run when the page is loaded
InitResumeDetection(w) ==
    LET saved == w.localStorage.session IN
    IF saved = Absent THEN w
    ELSE IF ~saved[1].parsable THEN ClearActiveState(w)
    ELSE IF IsValidSession(saved[1]) THEN [w EXCEPT !.page.resumeOffer = saved]
    ELSE ClearActiveState(w)


\* ------------------------------------------------ integrity monitor (1.2.0)

\* exam-integrity.js:463-476  _removeListeners: the listeners _handlers
\* refers to are taken off the document and the window, and _handlers is
\* emptied.  page.listeners counts the listeners on each signal class.
\* (x ranges over the one world w.)
RemoveListeners(w) ==
    CHOOSE removed \in
        {[x EXCEPT !.handlers = FALSE,
                   !.page.listeners = IF x.handlers THEN @ - 1 ELSE @] :
            x \in {w}} : TRUE

\* destroy without the new _callbacks object of lines 647-650.
DestroyKeepsCallbacks(w) ==
    LET w1 == [w EXCEPT !.mon.isActive = FALSE]
    IN  RemoveListeners(w1)

\* exam-integrity.js:638-653  destroy
Destroy(w) ==
    LET w1 == [w EXCEPT !.mon.isActive = FALSE]
    IN  [RemoveListeners(w1) EXCEPT !.callbacks = NoCallbacks]

\* exam-integrity.js:481-534  _initListeners: the old listeners are removed,
\* then one listener per signal class is subscribed and kept in _handlers
InitListeners(w) ==
    [RemoveListeners(w) EXCEPT !.handlers = TRUE, !.page.listeners = @ + 1]

\* init with the count and the ledger of the earlier session kept.
IntegrityInitKeepsLedger(w, config) ==
    LET w1 == [w EXCEPT
                 !.config.autoSubmitOnViolation = config.autoSubmitOnViolation,
                 !.config.violationThreshold = config.violationThreshold,
                 !.config.strictMode = config.strictMode]
        w2 == Destroy(w1)
        w3 == [w2 EXCEPT !.mon = [MonitorState(TRUE) EXCEPT
                                    !.violations = w.mon.violations,
                                    !.violationLog = w.mon.violationLog],
                         !.obs.monitorSession = @ + 1,
                         !.obs.autoSubmitCalls = 0]
    IN  InitListeners(w3)

\* exam-integrity.js:542-560  init(config): _config = {..._config, ...config}
IntegrityInit(w, config) ==
    LET w1 == [w EXCEPT
                 !.config.autoSubmitOnViolation = config.autoSubmitOnViolation,
                 !.config.violationThreshold = config.violationThreshold,
                 !.config.strictMode = config.strictMode]
        w2 == Destroy(w1)
        w3 == [w2 EXCEPT !.mon = MonitorState(TRUE),
                         !.obs.monitorSession = @ + 1,
                         !.obs.autoSubmitCalls = 0]
    IN  InitListeners(w3)

\* exam-integrity.js:605-609  onAutoSubmit(callback)
OnAutoSubmit(w, cb) ==
    [w EXCEPT !.callbacks.onAutoSubmit = Append(@, cb)]

\* exam-integrity.js:595-599  onViolation(callback)
OnViolation(w, cb) ==
    [w EXCEPT !.callbacks.onViolation = Append(@, cb)]

\* The stats of a monitor that has recorded nothing.
GetViolationsOfNone(w) == [count |-> 0, log |-> <<>>]

\* exam-integrity.js:584-589  getViolations: { count, log: [...log] }
GetViolations(w) ==
    [count |-> w.mon.violations, log |-> w.mon.violationLog]

\* _enforceFullscreen without the setTimeout call.
EnforceFullscreenNoTimer(w) ==
    IF w.mon.isReentering \/ w.mon.isSubmitting THEN w
    ELSE [w EXCEPT !.mon.isReentering = TRUE]

\* exam-integrity.js:346-383  _enforceFullscreen, up to the setTimeout call
EnforceFullscreen(w) ==
    IF w.mon.isReentering \/ w.mon.isSubmitting THEN w
    ELSE [w EXCEPT !.mon.isReentering = TRUE,
                   !.timers.reentry = @ + 1]

\* ------------------------------------- delivery (sheets-submitter.js)

\* sheets-submitter.js:34-47  generateSubmissionId: "SUB-", the day and six
\* characters drawn with Math.random.  No handler reads an id back, so one
\* draw stands for them all.
GenerateSubmissionId(w) == <<"SUB", w.env.clock \div Epoch, "A1B2C3">>

\* sheets-submitter.js:25-27  configure({ maxRetries })
ConfigureMaxRetries(w, maxRetries) ==
    [w EXCEPT !.sheets.maxRetries = maxRetries]

\* sheets-submitter.js:55-62  the value submit resolves with when no webhook
\* is configured
NotConfigured(w, resultData) ==
    [success |-> FALSE,
     submissionId |-> resultData.submissionId,
     timestamp |-> w.env.clock,
     error |-> <<"Webhook URL not configured. Results saved locally only.">>]

\* sheets-submitter.js:77-83  the value submit resolves with when fetch
\* resolved
Delivered(w, resultData) ==
    [success |-> TRUE,
     submissionId |-> resultData.submissionId,
     timestamp |-> w.env.clock,
     error |-> <<>>]

\* sheets-submitter.js:95-100  the value submit resolves with after the loop
NetworkError(w, resultData, lastError) ==
    [success |-> FALSE,
     submissionId |-> resultData.submissionId,
     timestamp |-> w.env.clock,
     error |-> <<"Network error after", w.sheets.maxRetries, "attempts",
                 IF lastError = Null THEN "Unknown error" ELSE lastError>>]

\* The promise of submit resolves with response: the reaction registered by
\* submitExam (script.js:684) is queued.
Resolve(w, resultData, attempts, response) ==
    [w EXCEPT !.delivery = [phase |-> "resolved", resultData |-> resultData,
                            attempts |-> attempts, response |-> response]]

\* sheets-submitter.js:66-76, 95-100  the test of the for loop with the
\* loop variable at `attempt`: fetch is called and submit is suspended on
\* it, or the loop is left and submit resolves.  attempt - 1 fetches have
\* been made.
Iterate(w, resultData, attempt, lastError) ==
    IF attempt <= w.sheets.maxRetries
    THEN [w EXCEPT !.delivery = [phase |-> "fetching",
                                 resultData |-> resultData,
                                 attempt |-> attempt, lastError |-> lastError]]
    ELSE Resolve(w, resultData, attempt - 1,
                 NetworkError(w, resultData, lastError))

\* submit without the test of line 55.
SheetsSubmitUnchecked(w, resultData) == Iterate(w, resultData, 1, Null)

\* sheets-submitter.js:54-76  submit(resultData), up to its first await
SheetsSubmit(w, resultData) ==
    IF w.sheets.webhookUrl = ""
    THEN Resolve(w, resultData, 0, NotConfigured(w, resultData))
    ELSE Iterate(w, resultData, 1, Null)

\* sheets-submitter.js:77-83  the awaited fetch resolved
FetchResolved(w) ==
    Resolve(w, w.delivery.resultData, w.delivery.attempt,
            Delivered(w, w.delivery.resultData))

\* A rejection of fetch that no catch takes: the promise of submit rejects.
FetchRejectedUncaught(w, error) ==
    [w EXCEPT !.delivery = [phase |-> "rejected",
                            resultData |-> w.delivery.resultData,
                            error |-> error]]

\* The same, waiting after the last attempt as well.
FetchRejectedAlwaysWaits(w, error) ==
    [w EXCEPT !.delivery = [phase |-> "waiting",
                            resultData |-> w.delivery.resultData,
                            attempt |-> w.delivery.attempt,
                            lastError |-> error,
                            delay |-> w.sheets.retryDelay]]

\* sheets-submitter.js:85-92  the awaited fetch rejected with `error`:
\* submit is suspended on the retry delay, or goes on to the loop's test
FetchRejected(w, error) ==
    IF w.delivery.attempt < w.sheets.maxRetries
    THEN [w EXCEPT !.delivery = [phase |-> "waiting",
                                 resultData |-> w.delivery.resultData,
                                 attempt |-> w.delivery.attempt,
                                 lastError |-> error,
                                 delay |-> w.sheets.retryDelay]]
    ELSE Iterate(w, w.delivery.resultData, w.delivery.attempt + 1, error)

\* sheets-submitter.js:90  the timer of the retry delay fired
DelayElapsed(w) ==
    Iterate(w, w.delivery.resultData, w.delivery.attempt + 1,
            w.delivery.lastError)

\* `exam_result_${resultObject.submissionId}`
ResultKey(submissionId) == <<"exam_result", submissionId>>

\* The reaction that stores nothing.
ReactionStoresNothing(w) ==
    [w EXCEPT !.delivery = [phase |-> "done",
                            resultData |-> w.delivery.resultData,
                            attempts |-> w.delivery.attempts,
                            response |-> w.delivery.response]]

\* script.js:684-694  the reaction to the promise of submit: a Result that
\* was not delivered is stored under its own key
Reaction(w) ==
    LET resultObject == w.delivery.resultData
        w1 == IF ~w.delivery.response.success
              THEN [w EXCEPT !.localStorage.results =
                        (ResultKey(resultObject.submissionId)
                            :> resultObject) @@ @]
              ELSE w
    IN  [w1 EXCEPT !.delivery = [phase |-> "done",
                                 resultData |-> resultObject,
                                 attempts |-> w.delivery.attempts,
                                 response |-> w.delivery.response]]

\* ------------------------------------------------------------- submitExam

\* The type as passed, without the mapping of line 578.
SubmissionTypeAsPassed(isAuto, submissionType) == submissionType

\* script.js:577-581  the submission type of the Result
FinalSubmissionType(isAuto, submissionType) ==
    IF isAuto /\ submissionType = "manual" THEN "auto-timeout"
    ELSE submissionType

\* script.js:566-713  submitExam(isAuto, submissionType = 'manual')
SubmitExamUnguarded(w, isAuto, submissionType) ==
    LET w1 == [w EXCEPT !.state.isSubmitted = TRUE,
                        !.state.timerId = FALSE]
        w2 == ClearActiveState(w1)
        w3 == [w2 EXCEPT !.state.timing.submittedAt = w.env.clock]
        violations == GetViolations(w3)
        w4 == Destroy(w3)
        resultObject ==
            [submissionId |-> GenerateSubmissionId(w4),
             student |-> w4.state.student,
             examId |-> w4.state.exam[1].examId,
             scoring |-> Scoring(w4.state.exam[1], w4.state.answers),
             timing |-> w4.state.timing,
             submission |-> [type |-> FinalSubmissionType(isAuto, submissionType)],
             integrity |-> [violations |-> violations.count,
                            violationLog |-> violations.log]]
        w5 == SheetsSubmit(w4, resultObject)
    IN  [w5 EXCEPT !.obs.results = Append(@, resultObject),
                   !.obs.finalizeCalls = @ + 1,
                   !.page.screen = "result"]

\* The same without the test of line 567.
SubmitExamTwice(w, isAuto, submissionType) ==
    SubmitExamUnguarded(w, isAuto, submissionType)

\* script.js:566-567  if (state.isSubmitted) return
SubmitExam(w, isAuto, submissionType) ==
    IF w.state.isSubmitted THEN w
    ELSE SubmitExamUnguarded(w, isAuto, submissionType)

\* Observation: submitExam is about to be called by `trigger`, one of
\* "manual" (the confirm button), "auto-timeout" (the countdown) and
\* "auto-violation" (the monitor's auto-submit callback).
Called(w, trigger) ==
    [w EXCEPT !.obs.called = <<trigger, w.state.isSubmitted>>,
              !.obs.firstTrigger = IF @ = "none" THEN trigger ELSE @]

\* ------------------------------------------- integrity monitor, recording

\* One registered callback is run.  "submit" is the callback script.js
\* registers: () => submitExam(true, 'auto-violation').
RunAutoSubmitCallback(w, cb) ==
    LET w1 == [w EXCEPT !.obs.autoSubmitCalls = @ + 1,
                        !.obs.autoSubmitted = Append(@, cb)]
    IN  IF cb = "submit"
        THEN SubmitExam(Called(w1, "auto-violation"), TRUE, "auto-violation")
        ELSE w1

\* The loop without its try/catch: a callback that throws ends it.
RECURSIVE ForEachAutoSubmitUncaught(_, _)
ForEachAutoSubmitUncaught(w, cbs) ==
    IF cbs = <<>> THEN w
    ELSE IF Head(cbs) = "throws"
    THEN [w EXCEPT !.obs.autoSubmitCalls = @ + 1,
                   !.obs.autoSubmitted = Append(@, "throws"),
                   !.obs.escaped = TRUE]
    ELSE ForEachAutoSubmitUncaught(RunAutoSubmitCallback(w, Head(cbs)),
                                   Tail(cbs))

\* exam-integrity.js:450-456  the callbacks of the array are called in turn,
\* each inside a try/catch
RECURSIVE ForEachAutoSubmit(_, _)
ForEachAutoSubmit(w, cbs) ==
    IF cbs = <<>> THEN w
    ELSE ForEachAutoSubmit(RunAutoSubmitCallback(w, Head(cbs)), Tail(cbs))

\* exam-integrity.js:442-458  _triggerAutoSubmit
TriggerAutoSubmit(w) ==
    IF ~w.mon.isActive \/ w.mon.isSubmitting THEN w
    ELSE LET w1 == [w EXCEPT !.mon.isSubmitting = TRUE,
                             !.mon.isActive = FALSE]
         IN  ForEachAutoSubmit(w1, w1.callbacks.onAutoSubmit)

\* A debounce window of half the length.
DebouncedHalf(now, lastViolationTime) ==
    2 * (now - lastViolationTime) < DEBOUNCE_MS

\* A debounce window that takes in its last instant.
DebouncedInclusive(now, lastViolationTime) ==
    now - lastViolationTime <= DEBOUNCE_MS

\* exam-integrity.js:400-406  the debounce test
Debounced(now, lastViolationTime) == now - lastViolationTime < DEBOUNCE_MS

\* Every signal skipped during the re-entry.
ReentrySkipsAll(isReentering, type) == isReentering

\* exam-integrity.js:395  _state.isReentering && type === 'fullscreen-exit'
ReentrySkips(isReentering, type) ==
    isReentering /\ type = "fullscreen-exit"

\* The threshold counted as reached one violation later.
ThresholdPassed(violations, threshold) == violations > threshold

\* exam-integrity.js:420  _state.violations >= _config.violationThreshold
ThresholdExceeded(violations, threshold) == violations >= threshold

\* exam-integrity.js:426  cb(violationEntry, _state.violations,
\* _config.violationThreshold): the call is observed with its arguments
RunViolationCallback(w, cb, args) ==
    [w EXCEPT !.obs.notified = Append(@, <<cb>> \o args)]

\* exam-integrity.js:426  _callbacks.onViolation.forEach: the callbacks are
\* called in turn with no try/catch, so one that throws ends the loop and
\* the exception leaves the function
RECURSIVE ForEachViolation(_, _, _)
ForEachViolation(w, cbs, args) ==
    IF cbs = <<>> THEN w
    ELSE LET w1 == RunViolationCallback(w, Head(cbs), args)
         IN  IF Head(cbs) = "throws"
             THEN [w1 EXCEPT !.obs.escaped = TRUE]
             ELSE ForEachViolation(w1, Tail(cbs), args)

\* The auto-submit due at the threshold whatever the configuration.
AutoSubmitDueAtThreshold(autoSubmitOnViolation, thresholdExceeded) ==
    thresholdExceeded

\* exam-integrity.js:434  _config.autoSubmitOnViolation && thresholdExceeded
AutoSubmitDue(autoSubmitOnViolation, thresholdExceeded) ==
    autoSubmitOnViolation /\ thresholdExceeded

\* The entry pushed on the ledger with the count left as it was.
RecordViolationUncounted(w, type) ==
    [w EXCEPT !.mon.lastViolationTime = w.env.clock,
              !.mon.violationLog =
                  Append(@, [type |-> type, timestamp |-> w.env.clock])]

\* exam-integrity.js:406-415  the time of the violation is kept, the count
\* is incremented and the entry is pushed on the ledger
RecordViolation(w, type) ==
    [w EXCEPT !.mon.lastViolationTime = w.env.clock,
              !.mon.violations = @ + 1,
              !.mon.violationLog =
                  Append(@, [type |-> type, timestamp |-> w.env.clock])]

\* exam-integrity.js:389-437  _logViolation(type).  The entry's timestamp
\* (line 410) is read in the same handler as `now` (line 401) and is the
\* same instant here.  The blocking alert of _showWarning changes no state.
\* An exception thrown at line 426 ends the function there.
LogViolation(w, type) ==
    IF ~w.mon.isActive \/ w.mon.isSubmitting THEN w
    ELSE IF ReentrySkips(w.mon.isReentering, type) THEN w
    ELSE IF Debounced(w.env.clock, w.mon.lastViolationTime) THEN w
    ELSE
      LET w1 == RecordViolation(w, type)
          thresholdExceeded ==
              ThresholdExceeded(w1.mon.violations, w1.config.violationThreshold)
          notified ==
              ForEachViolation(w1, w1.callbacks.onViolation,
                  <<[type |-> type, timestamp |-> w.env.clock],
                    w1.mon.violations, w1.config.violationThreshold>>)
          w2 == IF type = "fullscreen-exit" /\ ~thresholdExceeded
                THEN EnforceFullscreen(notified) ELSE notified
      IN  IF notified.obs.escaped THEN notified
          ELSE IF AutoSubmitDue(w2.config.autoSubmitOnViolation,
                                thresholdExceeded)
          THEN TriggerAutoSubmit(w2)
          ELSE w2


\* --------------------------------------------------------- session handlers

\* JavaScript a % b for b > 0: the result has the sign of a
JsMod(a, b) == IF a >= 0 THEN a % b ELSE 0 - ((0 - a) % b)

\* loadQuestion without the write of line 469.
LoadQuestionUnsaved(w, index) ==
    IF index < 0 \/ index >= Len(w.state.exam[1].questions) THEN w
    ELSE [w EXCEPT !.state.currentQIndex = index]

\* script.js:422-470  loadQuestion(index)
LoadQuestion(w, index) ==
    IF index < 0 \/ index >= Len(w.state.exam[1].questions) THEN w
    ELSE SaveActiveState([w EXCEPT !.state.currentQIndex = index])

\* selectOption without the test of line 473.
SelectOptionAnyTime(w, qId, optKey) ==
    LET old == w.state.answers
        w1 == [w EXCEPT !.state.answers =
                  [k \in DOMAIN old \cup {qId} |->
                      IF k = qId THEN optKey ELSE old[k]]]
    IN  SaveActiveState(LoadQuestion(w1, w1.state.currentQIndex))

\* script.js:472-484  selectOption(qId, optKey)
SelectOption(w, qId, optKey) ==
    IF w.state.isSubmitted THEN w
    ELSE LET old == w.state.answers
             w1 == [w EXCEPT !.state.answers =
                       [k \in DOMAIN old \cup {qId} |->
                           IF k = qId THEN optKey ELSE old[k]]]
         IN  SaveActiveState(LoadQuestion(w1, w1.state.currentQIndex))

\* script.js:391-407  startTimer: an interval is scheduled and its id stored
\* in state.timerId.  An interval whose id was stored there and that is
\* still scheduled can no longer be cleared.
StartTimer(w) ==
    [w EXCEPT !.state.timerId = TRUE,
              !.timers.leaked = IF w.state.timerId THEN @ + 1 ELSE @]

\* script.js:402  if (state.timeLeft <= 0)
TimeUp(timeLeft) == timeLeft <= 0

\* The interval callback without the write of line 399.
TimerCallbackSavesNothing(w) ==
    LET w1 == [w EXCEPT !.state.timeLeft = @ - 1]
    IN  IF TimeUp(w1.state.timeLeft)
        THEN SubmitExam(Called([w1 EXCEPT !.state.timerId = FALSE],
                               "auto-timeout"),
                        TRUE, "manual")
        ELSE w1

\* script.js:393-406  the interval callback
TimerCallback(w) ==
    LET w1 == [w EXCEPT !.state.timeLeft = @ - 1]
        w2 == IF JsMod(w1.state.timeLeft, SAVE_EVERY) = 0
              THEN SaveActiveState(w1) ELSE w1
    IN  IF TimeUp(w2.state.timeLeft)
        THEN SubmitExam(Called([w2 EXCEPT !.state.timerId = FALSE],
                               "auto-timeout"),
                        TRUE, "manual")
        ELSE w2

\* The configuration object script.js passes to IntegrityModule.init
\* (script.js:351-355 and 318-322).
IntegritySettings(exam) ==
    [autoSubmitOnViolation |-> exam.settings.autoSubmitOnViolation,
     violationThreshold |->
         OrDefault(exam.settings.violationThreshold, DEFAULT_THRESHOLD),
     strictMode |-> FALSE]

\* sheets-submitter.js:21-28  configure, called at script.js:364-368
ConfigureSheets(w, exam) ==
    IF exam.settings.webhookUrl # ""
    THEN [w EXCEPT !.sheets.webhookUrl = exam.settings.webhookUrl]
    ELSE w

\* script.js:335-382  startExam(examData)
StartExam(w, examData) ==
    LET duration == OrDefault(examData.settings.duration, DEFAULT_DURATION)
        w1 == [w EXCEPT
                 !.state.exam = <<examData>>,
                 !.state.answers = <<>>,
                 !.state.currentQIndex = 0,
                 !.state.timeLeft = duration * SECONDS_PER_MINUTE,
                 !.state.timing.durationAllowed = duration,
                 !.state.timing.startedAt = w.env.clock]
        w2 == OnAutoSubmit(IntegrityInit(w1, IntegritySettings(examData)),
                           "submit")
        w3 == ConfigureSheets(w2, examData)
        w4 == StartTimer(LoadQuestion(w3, 0))
    IN  SaveActiveState([w4 EXCEPT !.page.screen = "exam"])

\* script.js:301-331  resumeExam(savedState), for a document that has the
\* properties the function dereferences
ResumeExam(w, savedState) ==
    LET w1 == [w EXCEPT
                 !.state.student = savedState.student[1],
                 !.state.exam = savedState.exam,
                 !.state.currentQIndex =
                     OrDefault(savedState.currentQIndex, 0),
                 !.state.answers =
                     IF savedState.answers = <<>> THEN <<>>
                     ELSE savedState.answers[1],
                 !.state.timeLeft = savedState.timeLeft[1],
                 !.state.timing = savedState.timing[1]]
        w2 == StartTimer(LoadQuestion(w1, w1.state.currentQIndex))
        w3 == OnAutoSubmit(
                  IntegrityInit(w2, IntegritySettings(w2.state.exam[1])),
                  "submit")
    IN  [w3 EXCEPT !.page.screen = "exam", !.obs.resumed = TRUE]

\* resumeExam throws (a TypeError) on a document whose exam has no metadata
\* (updateHeader, script.js:387) or that lacks timing or timeLeft is harmless;
\* only the dereferences that throw are listed.
ResumeThrows(savedState) == savedState.exam[1].metadata = <<>>

\* Nothing observed yet.
\*   results, finalizeCalls  the Results built and handed to SheetsSubmitter
\*   monitorSession          calls of IntegrityModule.init
\*   autoSubmitCalls         auto-submit callbacks run since the last init
\*   called                  <<trigger, isSubmitted at the call>> in the
\*                           state a handler that called submitExam leaves
\*   firstTrigger            the trigger of the first submitExam call
\*   pending                 handlers run while a download is pending
\*   lastSaved               what saveActiveState last wrote
\*   justLoaded              the stored payload, in the state a page load leaves
\*   resumed                 resumeExam has run
InitialObs ==
    [results |-> <<>>, finalizeCalls |-> 0,
     monitorSession |-> 0, autoSubmitCalls |-> 0, pending |-> 0,
     called |-> <<>>, firstTrigger |-> "none",
     lastSaved |-> <<>>, justLoaded |-> <<>>, resumed |-> FALSE,
     notified |-> <<>>, autoSubmitted |-> <<>>, escaped |-> FALSE]

\* What a page load leaves: every script variable at its initial value,
\* no timer or promise pending, localStorage and the clock kept.  lastSaved
\* is what saveActiveState last wrote, if that is what the storage holds.
PageLoad(storage, clock, lastSaved) ==
    InitResumeDetection(
        [state |-> InitialState,
         config |-> InitialConfig,
         mon |-> MonitorState(FALSE),
         callbacks |-> NoCallbacks,
         handlers |-> FALSE,
         sheets |-> InitialSheets,
         delivery |-> NoDelivery,
         localStorage |-> storage,
         page |-> [screen |-> "login", resumeOffer |-> Absent,
                   fetching |-> <<>>, listeners |-> 0],
         timers |-> NoTimers,
         env |-> [clock |-> clock],
         obs |-> [InitialObs EXCEPT
                    !.justLoaded = <<storage.session>>,
                    !.lastSaved = IF storage.session = Absent
                                  THEN <<>> ELSE lastSaved]])


\* ------------------------------------------------------------------ inputs

Questions2 ==
    <<Question("q1", "A", Num(5)), Question("q2", "B", Num(10))>>

\* The exams of the manifest (../exams/manifest.json) a student can start.
Manifest ==
    {Exam("E1", Settings(Num(1), Num(50), Num(1), TRUE, "hook"),
          <<Question("q1", "A", Num(5))>>)}

StudentName == "Ada"

\* The exam of a session that an earlier page left in localStorage.
StoredExam ==
    Exam("E2", Settings(Num(1), Unset, Num(2), TRUE, "hook"), Questions2)

\* A document saveActiveState wrote 7 seconds before the end of that exam.
StoredDocument ==
    Stringify([InitialState EXCEPT
                 !.student.name = StudentName,
                 !.exam = <<StoredExam>>,
                 !.currentQIndex = 1,
                 !.answers = [k \in {"q1"} |-> "A"],
                 !.timeLeft = 7,
                 !.timing.durationAllowed = 1])

\* The exams SpecScore scores: up to MaxQuestions questions whose correct
\* option is "A" and whose marks are unset, 0 (the question parser accepts
\* MARKS: 0), 5 or 10, with the pass mark unset, 0 or 50.
QuestionIds == <<"q1", "q2", "q3", "q4">>

ScoreMarks == {Unset, Num(0), Num(5), Num(10)}

\* The marks a stored exam can carry: a stored session is resumed without
\* its exam being validated (isValidSession looks at no question), and an
\* exam file is only checked for examId and questions when the shared
\* validator is not loaded, so negative marks reach the scoring as well.
SignedMarks == ScoreMarks \cup {Num(-5)}

ScorePassMarks == {Unset, Num(0), Num(50)}

\* marks holds the marks of the questions, one entry per question.
ScoreExam(marks, passMark) ==
    Exam("E3", Settings(Num(1), passMark, Num(2), TRUE, "hook"),
         [i \in DOMAIN marks |-> Question(QuestionIds[i], "A", marks[i])])

\* The answers maps of a stored session of exam: a question has no entry,
\* a null entry, or one of its options.
ScoreAnswers(exam) ==
    UNION {[{exam.questions[i].questionId : i \in chosen}
               -> {Null, "A", "B"}] :
           chosen \in SUBSET DOMAIN exam.questions}

\* The document of a session of exam with these answers.
ScoreDocument(exam, answers) ==
    Stringify([InitialState EXCEPT
                 !.student.name = StudentName,
                 !.exam = <<exam>>,
                 !.answers = answers,
                 !.timeLeft = 7,
                 !.timing.durationAllowed = 1])

\* What localStorage may hold under STORAGE_KEY when the page is loaded:
\* nothing, text that is no JSON, documents that lack a property or hold a
\* blank name, and a complete document.
StoredSessions ==
    {Absent,
     <<[StoredDocument EXCEPT !.parsable = FALSE]>>,
     <<[StoredDocument EXCEPT !.exam = <<>>]>>,
     <<[StoredDocument EXCEPT !.exam = <<[StoredExam EXCEPT !.examId = ""]>>]>>,
     <<[StoredDocument EXCEPT !.student = <<>>]>>,
     <<[StoredDocument EXCEPT !.student = <<[name |-> Null]>>]>>,
     <<[StoredDocument EXCEPT !.student = <<[name |-> "  "]>>]>>,
     <<[StoredDocument EXCEPT !.exam = <<[StoredExam EXCEPT !.metadata = <<>>]>>]>>,
     <<StoredDocument>>}

\* ----------------------------------------------------------------- actions

\* A handler has run: the world becomes w.  The resume offer is a box of
\* the login screen: it is gone once another screen is shown.
Handled(w) ==
    /\ (page.fetching # <<>> /\ w.page.fetching # <<>>) =>
           obs.pending < MaxPending
    /\ Becomes([w EXCEPT !.obs.pending =
                             IF page.fetching # <<>> /\ w.page.fetching # <<>>
                             THEN @ + 1 ELSE 0,
                         !.page.resumeOffer =
                             IF w.page.screen = "login" THEN @ ELSE Absent])

Init ==
    \E session \in StoredSessions :
        Starts(PageLoad(Storage(session), Epoch, <<>>))

\* script.js:143-169  handleLogin: the name is captured, the button is
\* disabled and the exam file is requested
LoginClick ==
    /\ page.screen = "login"
    /\ page.fetching = <<>>
    /\ \E examData \in Manifest :
         Handled([World EXCEPT !.state.student.name = StudentName,
                               !.page.fetching = <<examData>>])

\* script.js:174-182  the exam file has arrived and is valid: startExam
ExamLoaded ==
    /\ page.fetching # <<>>
    /\ Handled(StartExam([World EXCEPT !.page.fetching = <<>>,
                                       !.obs.pending = 0],
                         page.fetching[1]))

\* script.js:183-187  the download failed: the button is enabled again
FetchFails ==
    /\ page.fetching # <<>>
    /\ Handled([World EXCEPT !.page.fetching = <<>>, !.obs.pending = 0])

\* script.js:270-279  btnResume.onclick
ResumeClick ==
    /\ page.screen = "login"
    /\ page.resumeOffer # Absent
    /\ IF ResumeThrows(page.resumeOffer[1])
       THEN Becomes(PageLoad(ClearActiveState(World).localStorage,
                             env.clock, <<>>))
       ELSE Handled(ResumeExam(World, page.resumeOffer[1]))

\* script.js:283-288  btnDismiss.onclick, confirmed
DismissClick ==
    /\ page.screen = "login"
    /\ page.resumeOffer # Absent
    /\ Handled([ClearActiveState(World) EXCEPT !.page.resumeOffer = Absent])

\* The page is reloaded, or the browser is closed and the page opened again.
Reload ==
    Becomes(PageLoad(localStorage, env.clock, obs.lastSaved))

\* script.js:393  one firing of the interval
Tick ==
    /\ state.timerId \/ timers.leaked > 0
    /\ state.timeLeft > 0 - MaxOvertime
    /\ \/ state.timeLeft <= MaxTicks
       \/ state.timeLeft >
              state.timing.durationAllowed * SECONDS_PER_MINUTE - MaxTicks
    /\ Handled(TimerCallback(World))

\* The same callback, followed for as long as an interval is scheduled.
Countdown ==
    /\ state.timerId \/ timers.leaked > 0
    /\ state.timeLeft > 0 - MaxOvertime
    /\ Handled(TimerCallback(World))

\* script.js:497-508, 531  Previous, Next, Skip and the palette dots.
\* Previous is disabled on the first question (line 458) and Next is hidden
\* on the last one (line 462); Skip is there on every question.
Navigate ==
    /\ page.screen \in {"exam", "result"}
    /\ \E index \in {state.currentQIndex + 1}
                     \cup (0 .. Len(state.exam[1].questions) - 1) :
         Handled(LoadQuestion(World, index))

\* script.js:446  a click on an option of the question shown
Answer ==
    /\ page.screen \in {"exam", "result"}
    /\ state.currentQIndex < Len(state.exam[1].questions)
    /\ LET q == state.exam[1].questions[state.currentQIndex + 1]
       IN  \E optKey \in q.options :
             Handled(SelectOption(World, q.questionId, optKey))

\* script.js:562-564  btnConfirm of the submit dialog
ConfirmSubmit ==
    /\ page.screen \in {"exam", "result"}
    /\ Handled(SubmitExam(Called(World, "manual"), FALSE, "manual"))

\* Time passes.
Advance ==
    /\ page.screen = "exam"
    /\ env.clock < Epoch + ClockSteps * TimeStep
    /\ Handled([World EXCEPT !.env.clock = @ + TimeStep])

\* exam-integrity.js:486-491  the visibilitychange listener; hidden is
\* document.hidden when it runs
VisibilityChangeHandler(w, hidden) ==
    IF hidden /\ ~w.mon.isSubmitting
    THEN LogViolation(w, "tab-switch") ELSE w

\* The tab is hidden or shown again: visibilitychange fires.
VisibilityChange ==
    /\ integrityHandlers
    /\ \E hidden \in BOOLEAN :
         Handled(VisibilityChangeHandler(World, hidden))

\* exam-integrity.js:495-501  the blur listener
BlurHandler(w, hidden) ==
    IF ~hidden /\ ~w.mon.isSubmitting
    THEN LogViolation(w, "window-blur") ELSE w

\* The window loses the focus: blur fires.
Blur ==
    /\ integrityHandlers
    /\ \E hidden \in BOOLEAN :
         Handled(BlurHandler(World, hidden))

\* A listener that takes an exit for a violation in strict mode only.
FullscreenChangeStrictOnly(w, isInFullscreen) ==
    IF ~isInFullscreen /\ w.mon.isActive /\ ~w.mon.isReentering
       /\ ~w.mon.isSubmitting /\ w.config.strictMode
    THEN LogViolation(w, "fullscreen-exit")
    ELSE IF isInFullscreen /\ w.mon.isReentering
    THEN [w EXCEPT !.mon.isReentering = FALSE]
    ELSE w

\* exam-integrity.js:505-529  the fullscreenchange listener; isInFullscreen
\* is whether document.fullscreenElement is set when it runs
FullscreenChangeHandler(w, isInFullscreen) ==
    IF ~isInFullscreen /\ w.mon.isActive /\ ~w.mon.isReentering
       /\ ~w.mon.isSubmitting
    THEN LogViolation(w, "fullscreen-exit")
    ELSE IF isInFullscreen /\ w.mon.isReentering
    THEN [w EXCEPT !.mon.isReentering = FALSE]
    ELSE w

\* The student leaves fullscreen (Esc) or enters it: fullscreenchange fires.
FullscreenChange ==
    /\ integrityHandlers
    /\ \E isInFullscreen \in BOOLEAN :
         Handled(FullscreenChangeHandler(World, isInFullscreen))

\* exam-integrity.js:356-382  the setTimeout callback of _enforceFullscreen;
\* rfs is undefined when the browser has no fullscreen API
ReentryTimeout(w, rfs) ==
    LET w1 == [w EXCEPT !.timers.reentry = @ - 1]
    IN  IF w1.mon.isActive /\ ~w1.mon.isSubmitting /\ rfs
        THEN [w1 EXCEPT !.timers.request = @ + 1]
        ELSE [w1 EXCEPT !.mon.isReentering = FALSE]

\* A timer set by _enforceFullscreen fires.
ReentryTimer ==
    /\ timers.reentry > 0
    /\ \E rfs \in BOOLEAN : Handled(ReentryTimeout(World, rfs))

\* exam-integrity.js:367  the browser grants or refuses the request.
\* Granting it puts the document in fullscreen, which fires
\* fullscreenchange.
RequestAnswered(w, granted) ==
    LET w1 == [w EXCEPT !.timers.request = @ - 1,
                        !.timers.settle = @ + 1]
    IN  IF granted /\ w1.handlers
        THEN FullscreenChangeHandler(w1, TRUE)
        ELSE w1

\* A fullscreen request is answered.
RequestOutcome ==
    /\ timers.request > 0
    /\ \E granted \in BOOLEAN : Handled(RequestAnswered(World, granted))

\* exam-integrity.js:368-375  the .then / .catch of the request
PromiseSettled(w) ==
    [w EXCEPT !.timers.settle = @ - 1, !.mon.isReentering = FALSE]

\* The promise of a fullscreen request settles.
PromiseSettles ==
    /\ timers.settle > 0
    /\ Handled(PromiseSettled(World))

Next ==
    \/ LoginClick
    \/ ExamLoaded
    \/ FetchFails
    \/ ResumeClick
    \/ DismissClick
    \/ Reload
    \/ Tick
    \/ Navigate
    \/ Answer
    \/ ConfirmSubmit
    \/ Advance
    \/ VisibilityChange
    \/ Blur
    \/ FullscreenChange
    \/ ReentryTimer
    \/ RequestOutcome
    \/ PromiseSettles

Spec == Init /\ [][Next]_vars

\* A countdown followed to its end: the session handlers without the
\* monitor's signals, reloads and the clock.
NextCountdown ==
    \/ LoginClick
    \/ ExamLoaded
    \/ ResumeClick
    \/ Answer
    \/ Countdown
    \/ ConfirmSubmit

SpecCountdown == Init /\ [][NextCountdown]_vars

\* Scoring: the page is loaded with a stored session of a ScoreExam, with
\* any answers; the session is resumed and submitted.
InitScore ==
    \E n \in 0 .. MaxQuestions :
      \E marks \in [1 .. n -> ScoreMarks], passMark \in ScorePassMarks :
        \E answers \in ScoreAnswers(ScoreExam(marks, passMark)) :
          Starts(PageLoad(
              Storage(<<ScoreDocument(ScoreExam(marks, passMark), answers)>>),
              Epoch, <<>>))

\* sheets-submitter.js:21-28  configure is called with a maxRetries
ConfigureRetries ==
    \E maxRetries \in 0 .. RetryLimit :
        Handled(ConfigureMaxRetries(World, maxRetries))

\* The continuations of submit are no handlers of the page: they are not
\* counted among the MaxPending handlers run while the exam file is fetched.

\* The request of the pending fetch reached no error the page can see (with
\* mode no-cors the response is opaque): fetch resolves.
SinkAccepts ==
    /\ delivery.phase = "fetching"
    /\ Becomes(FetchResolved(World))

\* What fetch rejects with.
FetchErrors == {"Failed to fetch", "Load failed"}

\* The pending fetch rejects.
SinkFails ==
    /\ delivery.phase = "fetching"
    /\ \E error \in FetchErrors : Becomes(FetchRejected(World, error))

\* The timer of the retry delay fires.
DelayFires ==
    /\ delivery.phase = "waiting"
    /\ Becomes(DelayElapsed(World))

\* The reaction queued when the promise of submit resolved is run.
SubmitReaction ==
    /\ delivery.phase = "resolved"
    /\ Becomes(Reaction(World))

\* Delivery: the page is loaded with a stored session; sessions are started
\* or resumed and submitted, the submitter is configured, and the call of
\* submit is followed through the sink's answers and the retry delays.
\* Spec, SpecCountdown, SpecScore and SpecMarks leave the call where
\* submitExam left it: what follows changes only `delivery` and the
\* exam_result_ keys, which no handler reads.
InitStored == Starts(PageLoad(Storage(<<StoredDocument>>), Epoch, <<>>))

\* A queued reaction runs before the browser handles anything else.
NoneQueued == delivery.phase # "resolved"

NextSheets ==
    \/ SubmitReaction
    \/ NoneQueued /\ LoginClick
    \/ NoneQueued /\ ExamLoaded
    \/ NoneQueued /\ FetchFails
    \/ NoneQueued /\ ResumeClick
    \/ NoneQueued /\ ConfirmSubmit
    \/ NoneQueued /\ Reload
    \/ NoneQueued /\ ConfigureRetries
    \/ SinkAccepts
    \/ SinkFails
    \/ DelayFires

SpecSheets == InitStored /\ [][NextSheets]_vars

\* The same, where a pending fetch settles, a scheduled timer fires and a
\* queued reaction runs.
SpecSheetsFair ==
    /\ SpecSheets
    /\ WF_vars(SinkAccepts \/ SinkFails)
    /\ WF_vars(DelayFires)
    /\ WF_vars(SubmitReaction)

\* What another script of the page registers with the monitor: a callback
\* that returns, or one that throws.
Subscribers == {"notes", "throws"}

\* exam-integrity.js:595-599  IntegrityModule.onViolation(callback)
RegisterViolationCallback ==
    /\ Len(integrityCallbacks.onViolation) < MaxCallbacks
    /\ \E cb \in Subscribers : Handled(OnViolation(World, cb))

\* exam-integrity.js:605-609  IntegrityModule.onAutoSubmit(callback)
RegisterAutoSubmitCallback ==
    /\ Len(integrityCallbacks.onAutoSubmit) < MaxCallbacks
    /\ \E cb \in Subscribers : Handled(OnAutoSubmit(World, cb))

\* exam-integrity.js:638-653  IntegrityModule.destroy() is called
DestroyCall ==
    LET destroyed == Destroy(World)
    IN  Handled(destroyed)

\* The monitor with subscribers: sessions are started or resumed, callbacks
\* are registered, the monitor is destroyed, and the signals arrive.
NextCallbacks ==
    \/ LoginClick
    \/ ExamLoaded
    \/ ResumeClick
    \/ RegisterViolationCallback
    \/ RegisterAutoSubmitCallback
    \/ DestroyCall
    \/ Advance
    \/ VisibilityChange
    \/ FullscreenChange

SpecCallbacks == InitStored /\ [][NextCallbacks]_vars

\* The re-entry into fullscreen: a stored session is resumed, exams are
\* started, the signals arrive, the session is submitted or the monitor
\* destroyed, and the timer and the request of the re-entry take their
\* course.
NextReentry ==
    \/ LoginClick
    \/ ExamLoaded
    \/ FetchFails
    \/ ResumeClick
    \/ ConfirmSubmit
    \/ DestroyCall
    \/ Advance
    \/ VisibilityChange
    \/ FullscreenChange
    \/ ReentryTimer
    \/ RequestOutcome
    \/ PromiseSettles

SpecReentry == InitStored /\ [][NextReentry]_vars

\* The same, where a download settles, a timer that was set fires, and a
\* fullscreen request is answered and its promise settles.
SpecReentryFair ==
    /\ SpecReentry
    /\ WF_vars(ExamLoaded \/ FetchFails)
    /\ WF_vars(ReentryTimer \/ RequestOutcome \/ PromiseSettles)

NextScore ==
    \/ ResumeClick
    \/ ConfirmSubmit

SpecScore == InitScore /\ [][NextScore]_vars

\* exam-integrity.js:615-617  setStrictMode(isStrict)
SetStrictMode(w, isStrict) == [w EXCEPT !.config.strictMode = isStrict]

\* IntegrityModule.setStrictMode is called.
SetStrictModeCall ==
    \E isStrict \in BOOLEAN : Handled(SetStrictMode(World, isStrict))

\* The monitor with strict mode switched on and off during the session.
NextStrict ==
    \/ LoginClick
    \/ ExamLoaded
    \/ ResumeClick
    \/ ConfirmSubmit
    \/ SetStrictModeCall
    \/ Advance
    \/ VisibilityChange
    \/ Blur
    \/ FullscreenChange
    \/ ReentryTimer
    \/ RequestOutcome
    \/ PromiseSettles

SpecStrict == InitStored /\ [][NextStrict]_vars

\* An exam whose violations are recorded without ending the session.
LenientExam ==
    Exam("E4", Settings(Num(1), Num(50), Num(1), FALSE, "hook"), Questions2)

\* A document saveActiveState wrote for a session of that exam.
LenientDocument ==
    Stringify([InitialState EXCEPT
                 !.student.name = StudentName,
                 !.exam = <<LenientExam>>,
                 !.timeLeft = 7,
                 !.timing.durationAllowed = 1])

InitLenient == Starts(PageLoad(Storage(<<LenientDocument>>), Epoch, <<>>))

\* The monitor of an exam with autoSubmitOnViolation off: the stored
\* session is resumed, the signals arrive as time passes and the session is
\* submitted; an exam of the manifest, which has auto-submit on, can be
\* started as well.  With a threshold of 1 no fullscreen exit is followed
\* by a re-entry (exam-integrity.js:429).
NextLenient ==
    \/ LoginClick
    \/ ExamLoaded
    \/ ResumeClick
    \/ ConfirmSubmit
    \/ Advance
    \/ VisibilityChange
    \/ Blur
    \/ FullscreenChange

SpecLenient == InitLenient /\ [][NextLenient]_vars

\* Scoring of exams whose marks may be negative: as InitScore, with the
\* marks drawn from SignedMarks.
InitMarks ==
    \E n \in 0 .. MaxQuestions :
      \E marks \in [1 .. n -> SignedMarks], passMark \in ScorePassMarks :
        \E answers \in ScoreAnswers(ScoreExam(marks, passMark)) :
          Starts(PageLoad(
              Storage(<<ScoreDocument(ScoreExam(marks, passMark), answers)>>),
              Epoch, <<>>))

SpecMarks == InitMarks /\ [][NextScore]_vars


\* ------------------------------------------- the web app (src/admin/app.js)

\* The variables of the student's page, which the web app does not touch.
pageVars ==
    <<state, integrityConfig, integrityState, integrityCallbacks,
      integrityHandlers, sheetsConfig, delivery, localStorage, page,
      timers, env, obs>>

\* Execution r of doPost moves to pc.
Goes(wh, r, pc) == [wh EXCEPT !.run[r].pc = pc]

\* app.js:275  sheet.appendRow(row): the row is added at the end.  A row
\* is kept as the request that appended it, whether it is the header row,
\* and whether that request held the script lock at that moment.
AppendRow(wh, r, header) ==
    [wh EXCEPT !.sheet[1] =
        Append(@, [by |-> r, header |-> header, locked |-> wh.lock = r])]

\* app.js:286  lock.releaseLock(): the lock is freed if this execution
\* holds it
ReleaseLock(wh, r) == [wh EXCEPT !.lock = IF @ = r THEN 0 ELSE @]

\* A POST request arrives: doPost(e) begins; e.postData.contents is a
\* Result, or a document that lacks a required field.
Arrives(r) ==
    /\ webhook.run[r].pc = "idle"
    /\ \E valid \in BOOLEAN :
         webhook' = [webhook EXCEPT !.run[r] =
                         [pc |-> "tryLock", valid |-> valid]]
    /\ UNCHANGED pageVars

\* app.js:231  lock.tryLock(10000) with the lock free: it is acquired
TryLockAcquires(r) ==
    /\ webhook.run[r].pc = "tryLock"
    /\ webhook.lock = 0
    /\ webhook' = [Goes(webhook, r, "getSheet") EXCEPT !.lock = r]
    /\ UNCHANGED pageVars

\* app.js:231  lock.tryLock(10000) while another execution holds the lock
\* for 10 seconds: tryLock returns false, and doPost, which does not look
\* at the value, goes on
TryLockTimesOut(r) ==
    /\ webhook.run[r].pc = "tryLock"
    /\ webhook.lock \notin {0, r}
    /\ webhook' = Goes(webhook, r, "getSheet")
    /\ UNCHANGED pageVars

\* app.js:235, 238  doc.getSheetByName(SHEET_NAME) and the test of it
GetSheetByName(r) ==
    /\ webhook.run[r].pc = "getSheet"
    /\ webhook' = Goes(webhook, r,
                       IF webhook.sheet = <<>> THEN "insertSheet"
                       ELSE "parse")
    /\ UNCHANGED pageVars

\* app.js:239  doc.insertSheet(SHEET_NAME): it throws if a sheet of that
\* name exists by now, which the catch of line 281 turns into an answer
InsertSheet(r) ==
    /\ webhook.run[r].pc = "insertSheet"
    /\ webhook' = IF webhook.sheet = <<>>
                  THEN [Goes(webhook, r, "header") EXCEPT !.sheet = << <<>> >>]
                  ELSE Goes(webhook, r, "finally")
    /\ UNCHANGED pageVars

\* app.js:241-245  the header row is appended to the new sheet
AppendHeader(r) ==
    /\ webhook.run[r].pc = "header"
    /\ webhook' = Goes(AppendRow(webhook, r, TRUE), r, "parse")
    /\ UNCHANGED pageVars

\* app.js:248-253  JSON.parse and the test of the required fields, which
\* throws on a document that lacks one
Validate(r) ==
    /\ webhook.run[r].pc = "parse"
    /\ webhook' = Goes(webhook, r,
                       IF webhook.run[r].valid THEN "appendRow"
                       ELSE "finally")
    /\ UNCHANGED pageVars

\* app.js:256-279  the row of the Result is appended and the answer built
AppendResult(r) ==
    /\ webhook.run[r].pc = "appendRow"
    /\ webhook' = Goes(AppendRow(webhook, r, FALSE), r, "finally")
    /\ UNCHANGED pageVars

\* app.js:285-287  finally: the lock is released and doPost returns
Finally(r) ==
    /\ webhook.run[r].pc = "finally"
    /\ webhook' = Goes(ReleaseLock(webhook, r), r, "done")
    /\ UNCHANGED pageVars

\* Requests arrive at the web app while others are being served.
NextWebhook ==
    \E r \in Requests :
        \/ Arrives(r)
        \/ TryLockAcquires(r)
        \/ TryLockTimesOut(r)
        \/ GetSheetByName(r)
        \/ InsertSheet(r)
        \/ AppendHeader(r)
        \/ Validate(r)
        \/ AppendResult(r)
        \/ Finally(r)

\* The page plays no part: it is as a load without a stored session
\* leaves it.
InitWebhook == Starts(PageLoad(Storage(Absent), Epoch, <<>>))

SpecWebhook == InitWebhook /\ [][NextWebhook]_vars

\* ------------------------------------------------------------------ claims

Log == integrityState.violationLog

Threshold == integrityConfig.violationThreshold

\* C1: with autoSubmitOnViolation set, the monitor is submitting exactly when
\* count has reached violationThreshold, the auto-submit callback has then
\* been invoked exactly once (and never before), count never exceeds the
\* threshold, and once the monitor is submitting no signal changes count or
\* the ledger again.
C1_AutoSubmitOnceThenSilent ==
    /\ [](integrityConfig.autoSubmitOnViolation =>
            /\ integrityState.violations <= Threshold
            /\ integrityState.isSubmitting <=>
                   (integrityState.violations = Threshold)
            /\ obs.autoSubmitCalls =
                   (IF integrityState.isSubmitting THEN 1 ELSE 0))
    /\ [][(integrityState.isSubmitting
            /\ obs'.monitorSession = obs.monitorSession) =>
            /\ integrityState'.isSubmitting
            /\ integrityState'.violations = integrityState.violations
            /\ integrityState'.violationLog = Log
            /\ obs'.autoSubmitCalls = obs.autoSubmitCalls]_vars

\* The second violation of a threshold-2 session has been recorded, the
\* monitor is submitting and the Result is of type auto-violation.
C1_Witness ==
    /\ integrityConfig.autoSubmitOnViolation
    /\ Threshold = 2
    /\ integrityState.isSubmitting
    /\ integrityState.violations = 2
    /\ obs.autoSubmitCalls = 1
    /\ Len(obs.results) = 1
    /\ obs.results[1].submission.type = "auto-violation"

\* C2: whatever submit triggers occur, one Result is built and the pipeline
\* is invoked once, exactly when the session is submitted; until the page is
\* loaded anew the flag never goes back, and a submitExam call on a
\* submitted session changes nothing.
C2_SubmitOnce ==
    /\ [](/\ Len(obs.results) = (IF state.isSubmitted THEN 1 ELSE 0)
          /\ obs.finalizeCalls = Len(obs.results))
    /\ [][(state.isSubmitted /\ obs'.justLoaded = <<>>) =>
            /\ state'.isSubmitted
            /\ obs'.results = obs.results
            /\ obs'.finalizeCalls = obs.finalizeCalls
            /\ state'.timing.submittedAt = state.timing.submittedAt]_vars

\* submitExam has just been called on a session that was submitted already.
C2_Witness ==
    /\ state.isSubmitted
    /\ obs.called = <<"manual", TRUE>>
    /\ Len(obs.results) = 1
    /\ obs.finalizeCalls = 1

\* C3: the Result's submission.type is the trigger of the first submitExam
\* call, and a later call leaves the Result and the snapshot slot as they
\* are, and the monitor too (a later call by the monitor's own auto-submit
\* callback comes with the violation that the monitor has just recorded).
C3_FirstTriggerWins ==
    /\ [](state.isSubmitted =>
            /\ Len(obs.results) = 1
            /\ obs.results[1].submission.type = obs.firstTrigger)
    /\ [][(obs'.called # <<>> /\ obs'.called[2]) =>
            /\ obs'.results = obs.results
            /\ localStorage' = localStorage
            /\ obs'.called[1] # "auto-violation" =>
                  /\ integrityState' = integrityState
                  /\ integrityConfig' = integrityConfig
                  /\ integrityCallbacks' = integrityCallbacks
                  /\ integrityHandlers' = integrityHandlers]_vars

\* A session the countdown submitted, on which the confirm button has just
\* been clicked.
C3_Witness ==
    /\ state.isSubmitted
    /\ obs.firstTrigger = "auto-timeout"
    /\ obs.called = <<"manual", TRUE>>
    /\ obs.results[1].submission.type = "auto-timeout"

\* C4: any two consecutive ledger entries were recorded at least 1000 ms
\* apart.
C4_DebounceWindow ==
    \A i \in 1 .. Len(Log) - 1 :
        Log[i + 1].timestamp - Log[i].timestamp >= 1000

\* Two violations of different types are in the ledger.
C4_Witness ==
    /\ Len(Log) = 2
    /\ Log[1].type # Log[2].type

Answered ==
    {i \in DOMAIN state.exam[1].questions :
        state.exam[1].questions[i].questionId \in DOMAIN state.answers}

\* C5: the tick that brings the countdown of a running session to 0 leaves
\* no interval scheduled and the session submitted, with a Result of type
\* auto-timeout whose unanswered count is n - k for the k of n questions
\* answered.
C5_TimeoutSubmits ==
    [][(/\ state.exam # <<>>
        /\ ~state.isSubmitted
        /\ state.timeLeft > 0
        /\ state'.exam = state.exam
        /\ state'.timeLeft <= 0) =>
          /\ state'.isSubmitted
          /\ ~state'.timerId
          /\ timers'.leaked = 0
          /\ Len(obs'.results) = 1
          /\ obs'.results[1].submission.type = "auto-timeout"
          /\ obs'.results[1].scoring.unansweredQuestions =
                 Len(state.exam[1].questions) - Cardinality(Answered)]_vars

\* A stored payload the restore has to reject: no JSON, no exam id, or no
\* student name that is non-empty after trimming.
MustReject(doc) ==
    \/ ~doc.parsable
    \/ doc.exam = <<>>
    \/ doc.exam[1].examId = ""
    \/ doc.student = <<>>
    \/ doc.student[1].name \in {Null, "", " ", "  "}

\* C6: a page load that finds such a payload erases the snapshot slot,
\* leaves the session state at its initial value and offers no resume; and
\* no such payload is ever offered for resuming.
C6_RejectsBadSnapshot ==
    /\ (/\ obs.justLoaded # <<>>
        /\ obs.justLoaded[1] # Absent
        /\ MustReject(obs.justLoaded[1][1]))
       => /\ localStorage.session = Absent
          /\ page.resumeOffer = Absent
          /\ page.screen = "login"
          /\ state = InitialState
    /\ page.resumeOffer # Absent => ~MustReject(page.resumeOffer[1])

\* The page was loaded with a payload whose student name is blank.
C6_Witness ==
    /\ obs.justLoaded # <<>>
    /\ obs.justLoaded[1] # Absent
    /\ obs.justLoaded[1][1].parsable
    /\ obs.justLoaded[1][1].student # <<>>
    /\ obs.justLoaded[1][1].student[1].name = "  "
    /\ localStorage.session = Absent

\* C7: a resume restores exactly the student, exam, currentQIndex, answers,
\* timeLeft and timing the session had when saveActiveState last ran.
C7_SnapshotRoundTrip ==
    [][(~obs.resumed /\ obs'.resumed /\ obs.lastSaved # <<>>) =>
          SavedProperties(state') = obs.lastSaved[1]]_vars

\* A session resumed after a reload, with an answer recorded before it.
C7_Witness ==
    /\ obs.resumed
    /\ obs.lastSaved # <<>>
    /\ state.exam # <<>>
    /\ state.exam[1].examId = "E1"
    /\ DOMAIN state.answers # {}
    /\ state.timeLeft < 60

\* The marks a question is worth: its marks, or 1 when they are unset or
\* not positive.
WorthOf(q) == IF q.marks # Unset /\ q.marks[1] > 0 THEN q.marks[1] ELSE 1

\* The answer recorded for question q, Null when there is none.
Recorded(q) ==
    IF q.questionId \in DOMAIN state.answers
    THEN state.answers[q.questionId] ELSE Null

\* The questions of the submitted exam, as indices.
Asked == DOMAIN state.exam[1].questions

Q(i) == state.exam[1].questions[i]

\* C8: in a Result, the outcome of each question is correct exactly when the
\* recorded answer is the question's correct option, awards the question's
\* marks when correct and 0 otherwise, and a question with no answer or a
\* null answer is counted as unanswered, not as correct or wrong.
C8_OutcomePerQuestion ==
    \A r \in DOMAIN obs.results :
        LET scoring == obs.results[r].scoring IN
        /\ DOMAIN scoring.answers = Asked
        /\ \A i \in Asked :
              /\ scoring.answers[i].questionId = Q(i).questionId
              /\ scoring.answers[i].selectedOption = Recorded(Q(i))
              /\ scoring.answers[i].isCorrect <=>
                     (Recorded(Q(i)) = Q(i).correctAnswer)
              /\ scoring.answers[i].marksAwarded =
                     (IF Recorded(Q(i)) = Q(i).correctAnswer
                      THEN WorthOf(Q(i)) ELSE 0)
        /\ scoring.unansweredQuestions =
              Cardinality({i \in Asked : Recorded(Q(i)) = Null})
        /\ scoring.correctAnswers =
              Cardinality({i \in Asked : Recorded(Q(i)) = Q(i).correctAnswer})
        /\ scoring.wrongAnswers =
              Cardinality({i \in Asked :
                  Recorded(Q(i)) \notin {Null, Q(i).correctAnswer}})

\* A Result of two questions: the first has a null answer, the second is
\* answered correctly and has no marks of its own.
C8_Witness ==
    /\ Len(obs.results) = 1
    /\ Len(state.exam[1].questions) = 2
    /\ "q1" \in DOMAIN state.answers
    /\ state.answers["q1"] = Null
    /\ Q(2).marks = Unset
    /\ obs.results[1].scoring.unansweredQuestions = 1
    /\ obs.results[1].scoring.answers[2].isCorrect
    /\ obs.results[1].scoring.answers[2].marksAwarded = 1

\* C9: in a Result, totalMarks is the sum of what the questions are worth,
\* obtainedMarks the sum over the correctly answered ones, and percentage
\* (in hundredths) is obtainedMarks / totalMarks x 10000 rounded to the
\* nearest integer, or 0 when totalMarks is 0; questions worth 5 and 10 with
\* only the first correct give 5 of 15, 33.33, and not passed at 50.
C9_PercentageRounded ==
    \A r \in DOMAIN obs.results :
        LET scoring == obs.results[r].scoring
            total == scoring.totalMarks
            obtained == scoring.obtainedMarks
        IN  /\ total = SumSeq([i \in Asked |-> WorthOf(Q(i))])
            /\ obtained =
                  SumSeq([i \in Asked |->
                      IF Recorded(Q(i)) = Q(i).correctAnswer
                      THEN WorthOf(Q(i)) ELSE 0])
            /\ total = 0 => scoring.percentage = 0
            /\ total > 0 =>
                  /\ (2 * scoring.percentage - 1) * total <= 20000 * obtained
                  /\ 20000 * obtained < (2 * scoring.percentage + 1) * total
            /\ (/\ Len(state.exam[1].questions) = 2
                /\ Q(1).marks = Num(5)
                /\ Q(2).marks = Num(10)
                /\ state.exam[1].settings.passMark = Num(50)
                /\ Recorded(Q(1)) = Q(1).correctAnswer
                /\ Recorded(Q(2)) # Q(2).correctAnswer)
               => /\ obtained = 5
                  /\ total = 15
                  /\ scoring.percentage = 3333
                  /\ ~scoring.passed

\* The Result of that exam: 5 and 10 marks, pass mark 50, the first answer
\* right and the second wrong.
C9_Witness ==
    /\ Len(obs.results) = 1
    /\ Len(state.exam[1].questions) = 2
    /\ Q(1).marks = Num(5)
    /\ Q(2).marks = Num(10)
    /\ state.exam[1].settings.passMark = Num(50)
    /\ Recorded(Q(1)) = "A"
    /\ Recorded(Q(2)) = "B"
    /\ obs.results[1].scoring.percentage = 3333

\* C10: in a Result, passed is true exactly when percentage is at least the
\* exam's passMark, whatever passMark the exam supplies (0 included), and
\* at least 50 when the exam supplies none.
C10_PassedIffAtLeastPassMark ==
    \A r \in DOMAIN obs.results :
        LET scoring == obs.results[r].scoring
            supplied == state.exam[1].settings.passMark
            passMark == IF supplied = Unset THEN 50 ELSE supplied[1]
        IN  scoring.passed <=> (scoring.percentage >= passMark * 100)

\* C11: in a Result, a question whose marks are unset, zero or negative is
\* worth exactly 1: a correct answer to it awards 1, and it adds 1 to
\* totalMarks, so totalMarks is at least the number of questions.
C11_NonPositiveMarksWorthOne ==
    \A r \in DOMAIN obs.results :
        LET scoring == obs.results[r].scoring
            unmarked == {i \in Asked :
                            Q(i).marks = Unset \/ Q(i).marks[1] <= 0}
            marked == Asked \ unmarked
        IN  /\ \A i \in unmarked :
                  scoring.answers[i].isCorrect
                      => scoring.answers[i].marksAwarded = 1
            /\ scoring.totalMarks
                   - SumSeq([i \in Asked |->
                        IF i \in marked THEN Q(i).marks[1] ELSE 0])
                 = Cardinality(unmarked)
            /\ scoring.totalMarks >= Len(state.exam[1].questions)

\* C12: in a Result, the marksAwarded of the outcomes add up to
\* obtainedMarks, and obtainedMarks is at most totalMarks.
C12_AwardedWithinTotal ==
    \A r \in DOMAIN obs.results :
        LET scoring == obs.results[r].scoring IN
        /\ SumSeq([i \in DOMAIN scoring.answers |->
                      scoring.answers[i].marksAwarded])
             = scoring.obtainedMarks
        /\ scoring.obtainedMarks <= scoring.totalMarks

Handed == obs.results[1]

Outcome == delivery.response

\* C14: while no webhook is configured, a Result handed to the submitter
\* leads to no fetch: the call resolves at once, without an attempt, with
\* success false, the Result's submissionId, the time of the call and the
\* error text that says the Result is kept locally only.
C14_NoSinkLocalOnly ==
    (sheetsConfig.webhookUrl = "" /\ Len(obs.results) > 0) =>
        /\ delivery.phase \in {"resolved", "done"}
        /\ delivery.resultData = Handed
        /\ delivery.attempts = 0
        /\ DOMAIN Outcome = {"success", "submissionId", "timestamp", "error"}
        /\ Outcome.success = FALSE
        /\ Outcome.submissionId = Handed.submissionId
        /\ Outcome.timestamp = Handed.timing.submittedAt
        /\ Outcome.error =
              <<"Webhook URL not configured. Results saved locally only.">>

\* A resumed session, whose page configured no webhook, was submitted and
\* the reaction to the outcome has run.
C14_Witness ==
    /\ sheetsConfig.webhookUrl = ""
    /\ Len(obs.results) = 1
    /\ obs.resumed
    /\ delivery.phase = "done"
    /\ ~Outcome.success

\* The call of submit is suspended on a fetch, on the retry delay, or over.
Fetching == delivery.phase = "fetching"

Waiting == delivery.phase = "waiting"

Over == delivery.phase \in {"resolved", "done"}

\* C15: with a webhook configured, the attempts are numbered from 1 and an
\* attempt is only begun while its number is at most maxRetries; the call
\* waits, for the fixed delay, only after an attempt that failed and while
\* a further attempt is due; an attempt ends in success (success true, no
\* error, no further attempt), in that wait, or (the last one) in failure;
\* and once the call is over no attempt is made.
C15_BoundedAttempts ==
    [][/\ (Fetching' /\ ~Fetching) =>
              /\ sheetsConfig.webhookUrl # ""
              /\ delivery'.attempt =
                     (IF Waiting THEN delivery.attempt + 1 ELSE 1)
              /\ delivery'.attempt <= sheetsConfig.maxRetries
       /\ (Fetching /\ Fetching') => delivery' = delivery
       /\ (Waiting' /\ ~Waiting) =>
              /\ Fetching
              /\ delivery'.attempt = delivery.attempt
              /\ delivery'.lastError \in FetchErrors
              /\ delivery.attempt < sheetsConfig.maxRetries
              /\ delivery'.delay = RETRY_DELAY
       /\ (Fetching /\ Over') =>
              /\ delivery'.attempts = delivery.attempt
              /\ delivery'.resultData = delivery.resultData
              /\ \/ /\ Outcome'.success
                    /\ Outcome'.error = <<>>
                    /\ Outcome'.submissionId = delivery.resultData.submissionId
                 \/ /\ ~Outcome'.success
                    /\ delivery.attempt >= sheetsConfig.maxRetries
       /\ (Over /\ delivery'.phase # "idle") =>
              /\ Over'
              /\ delivery'.attempts = delivery.attempts
              /\ Outcome' = Outcome
       /\ (Over' /\ Outcome'.success) => (Over \/ Fetching)
      ]_vars

\* The second attempt, made after a failed one and the delay, was accepted.
C15_Witness ==
    /\ delivery.phase = "done"
    /\ Outcome.success
    /\ Outcome.error = <<>>
    /\ delivery.attempts = 2
    /\ sheetsConfig.maxRetries = MAX_RETRIES

\* The exam_result_ key of the Result the call of submit was given, and
\* whether localStorage holds that Result under it.
OwnKey == ResultKey(delivery.resultData.submissionId)

StoredLocally ==
    /\ OwnKey \in DOMAIN localStorage.results
    /\ localStorage.results[OwnKey] = delivery.resultData

\* C16: when the last of the maxRetries attempts fails, the call resolves
\* with success false, the Result's submissionId and an error that names
\* the number of attempts and what the last attempt failed with; the
\* reaction to a failed outcome writes the Result to localStorage under
\* the key made of its submissionId; and no step removes such a key.
C16_FailureStoredLocally ==
    [][/\ (Fetching /\ Over' /\ ~Outcome'.success) =>
              /\ delivery.attempt >= sheetsConfig.maxRetries
              /\ Outcome'.submissionId = delivery.resultData.submissionId
              /\ \E error \in FetchErrors :
                    Outcome'.error =
                        <<"Network error after", sheetsConfig.maxRetries,
                          "attempts", error>>
       /\ (delivery.phase = "resolved" /\ delivery'.phase = "done"
             /\ ~Outcome.success) => StoredLocally'
       /\ DOMAIN localStorage.results \subseteq DOMAIN localStorage'.results
      ]_vars

\* All MAX_RETRIES attempts failed and the Result is in localStorage.
C16_Witness ==
    /\ delivery.phase = "done"
    /\ ~Outcome.success
    /\ delivery.attempts = MAX_RETRIES
    /\ sheetsConfig.maxRetries = MAX_RETRIES
    /\ Outcome.error[1] = "Network error after"
    /\ StoredLocally

\* The Result given to submit was accepted by the sink (a fetch resolved)
\* or is in localStorage under its own key.
Secured ==
    /\ delivery.phase # "idle"
    /\ \/ Over /\ Outcome.success
       \/ StoredLocally

\* C17: a Result handed to the submitter, with or without a webhook
\* configured and whatever the fetches do, is eventually accepted by the
\* sink or held in localStorage under its submissionId.
C17_NeverDropped == (delivery.phase # "idle") ~> Secured

\* C18: a call of submit is always suspended on a fetch or on the delay,
\* or resolved: its promise never rejects; what it resolves with is a
\* record of success, the Result's submissionId, a timestamp and an error
\* that is null exactly on success; and a suspended call is eventually
\* resolved, unless the page is loaded anew first.
C18_AlwaysResolves ==
    /\ [](delivery.phase \in
              {"idle", "fetching", "waiting", "resolved", "done"})
    /\ [](Over =>
              /\ DOMAIN Outcome =
                     {"success", "submissionId", "timestamp", "error"}
              /\ Outcome.success \in BOOLEAN
              /\ Outcome.submissionId = delivery.resultData.submissionId
              /\ Outcome.timestamp \in Nat
              /\ Outcome.success <=> (Outcome.error = <<>>))
    /\ (Fetching \/ Waiting) ~> (Over \/ delivery.phase = "idle")

\* With maxRetries configured to RetryLimit, that many attempts were made
\* and the call resolved with the failure.
C18_Witness ==
    /\ Over
    /\ sheetsConfig.maxRetries = RetryLimit
    /\ delivery.attempts = RetryLimit
    /\ ~Outcome.success

\* C19: the step that records a violation calls every registered violation
\* callback, in order, with the new ledger entry, the new count and the
\* threshold, whether or not one of them throws; no exception leaves the
\* step; a fullscreen exit below the threshold still starts the re-entry,
\* and with auto-submit set a count at the threshold still makes the
\* monitor submit.
C19_ViolationCallbacksIsolated ==
    [][(/\ integrityState'.violations = integrityState.violations + 1
        /\ obs'.monitorSession = obs.monitorSession) =>
          LET cbs == integrityCallbacks.onViolation
              log == integrityState'.violationLog
              entry == log[Len(log)]
              count == integrityState'.violations
              threshold == integrityConfig.violationThreshold
          IN  /\ obs'.notified =
                     [i \in DOMAIN cbs |-> <<cbs[i], entry, count, threshold>>]
              /\ ~obs'.escaped
              /\ (entry.type = "fullscreen-exit" /\ count < threshold) =>
                     integrityState'.isReentering
              /\ (integrityConfig.autoSubmitOnViolation
                    /\ count >= threshold) => integrityState'.isSubmitting
      ]_vars

\* C20: the step in which the monitor starts submitting calls every
\* registered auto-submit callback once, in order, whether or not one of
\* them throws, and no exception leaves the step; afterwards none is called
\* until the monitor is initialised anew.
C20_AutoSubmitCallbacksOnce ==
    [][/\ (/\ integrityState'.isSubmitting
           /\ ~integrityState.isSubmitting
           /\ obs'.monitorSession = obs.monitorSession) =>
              /\ obs'.autoSubmitted = integrityCallbacks.onAutoSubmit
              /\ obs'.autoSubmitCalls = Len(integrityCallbacks.onAutoSubmit)
              /\ ~obs'.escaped
       /\ (/\ integrityState.isSubmitting
           /\ obs'.monitorSession = obs.monitorSession) =>
              obs'.autoSubmitted = <<>>
      ]_vars

\* The threshold was crossed with three callbacks registered: the one of
\* the page, which submitted, one that throws, and one after it.
C20_Witness ==
    /\ integrityState.isSubmitting
    /\ obs.autoSubmitted = <<"submit", "throws", "notes">>
    /\ Len(obs.results) = 1
    /\ obs.results[1].submission.type = "auto-violation"

\* The monitor is inactive, no listener is subscribed and both registries
\* are empty.
Destroyed ==
    /\ ~integrityState.isActive
    /\ ~integrityHandlers
    /\ integrityCallbacks = NoCallbacks

\* C21: a call of destroy(), whatever state the monitor is in, leaves the
\* monitor inactive, no listener subscribed and both callback registries
\* empty, and the count and the ledger as they were; called on a monitor
\* that is already so, it changes nothing.
C21_DestroyIdempotent ==
    [][DestroyCall =>
          /\ Destroyed'
          /\ integrityState'.violations = integrityState.violations
          /\ integrityState'.violationLog = Log
          /\ Destroyed =>
                /\ integrityState' = integrityState
                /\ integrityConfig' = integrityConfig
                /\ integrityCallbacks' = integrityCallbacks
                /\ integrityHandlers' = integrityHandlers
                /\ state' = state
                /\ localStorage' = localStorage
                /\ timers' = timers
      ]_vars

\* A monitor destroyed by that call (the session is not submitted, the
\* monitor is not submitting) after it recorded a fullscreen exit and while
\* the re-entry was under way.
C21_Witness ==
    /\ Destroyed
    /\ page.screen = "exam"
    /\ ~state.isSubmitted
    /\ ~integrityState.isSubmitting
    /\ integrityState.isReentering
    /\ integrityState.violations = 1
    /\ Len(Log) = 1

\* The index of the last question of the session's exam.
LastIndex == IF state.exam = <<>> THEN -1 ELSE Len(state.exam[1].questions) - 1

\* The question on the screen.
Shown == state.exam[1].questions[state.currentQIndex + 1]

\* What a click on option optKey of the question shown leaves.
Chooses(optKey) == SelectOption(World, Shown.questionId, optKey)

\* C22: whenever a question is on the screen, choosing one of its options
\* changes, on a submitted session, neither the session (its answers
\* included), nor the stored snapshot, nor the Result; on a session that
\* is not submitted it records the option for that question, leaves the
\* other answers, timeLeft and currentQIndex as they were, and stores a
\* snapshot of the session with the new answer in it.
C22_RecordAnswer ==
    (/\ page.screen \in {"exam", "result"}
     /\ state.currentQIndex <= LastIndex) =>
        \A optKey \in Shown.options :
            LET after == Chooses(optKey) IN
            IF state.isSubmitted
            THEN /\ after.state = state
                 /\ after.localStorage = localStorage
                 /\ after.obs.results = obs.results
            ELSE /\ DOMAIN after.state.answers =
                        DOMAIN state.answers \cup {Shown.questionId}
                 /\ after.state.answers[Shown.questionId] = optKey
                 /\ \A k \in DOMAIN state.answers \ {Shown.questionId} :
                        after.state.answers[k] = state.answers[k]
                 /\ after.state.timeLeft = state.timeLeft
                 /\ after.state.currentQIndex = state.currentQIndex
                 /\ ~after.state.isSubmitted
                 /\ after.localStorage.session = <<Stringify(after.state)>>
                 /\ after.localStorage.session[1].answers =
                        <<after.state.answers>>

\* The second question of the stored exam was answered after the first:
\* both answers are in the session and in the stored snapshot.
C22_Witness ==
    /\ ~state.isSubmitted
    /\ state.exam # <<>>
    /\ state.exam[1].examId = "E2"
    /\ state.answers = [k \in {"q1", "q2"} |-> IF k = "q1" THEN "A" ELSE "B"]
    /\ localStorage.session # Absent
    /\ localStorage.session[1].answers = <<state.answers>>

\* The indices the navigation controls pass to loadQuestion: Next and Skip
\* pass the index after the current one, a palette dot passes its own.
ControlIndices == {state.currentQIndex + 1} \cup (0 .. LastIndex)

\* min(max(index, 0), lastIndex)
Clamped(index, lastIndex) ==
    IF index < 0 THEN 0 ELSE IF index > lastIndex THEN lastIndex ELSE index

\* C23: whenever a session is on the screen, navigating to an index, any
\* that the controls of the page pass, leaves currentQIndex at that index
\* brought into 0 .. lastIndex and, on a session that is not submitted,
\* leaves in the snapshot slot a snapshot of the session as it is then.
C23_NavigateClamps ==
    page.screen \in {"exam", "result"} =>
        \A index \in ControlIndices :
            LET after == LoadQuestion(World, index) IN
            /\ after.state.currentQIndex = Clamped(index, LastIndex)
            /\ ~state.isSubmitted =>
                   after.localStorage.session = <<Stringify(after.state)>>

\* The classes of raw signal the monitor listens to, by the type a signal
\* of the class is recorded under.
SignalTypes == {"tab-switch", "window-blur", "fullscreen-exit"}

\* What the listener leaves when a raw signal of the class arrives now: the
\* tab was hidden, the window lost the focus while the tab is shown, or
\* the document left fullscreen.
After(type) ==
    CASE type = "tab-switch" -> VisibilityChangeHandler(World, TRUE)
      [] type = "window-blur" -> BlurHandler(World, FALSE)
      [] type = "fullscreen-exit" -> FullscreenChangeHandler(World, FALSE)

\* The monitor is active and not submitting, and the last recorded
\* violation is at least 1000 ms old.
Listening ==
    /\ integrityHandlers
    /\ integrityState.isActive
    /\ ~integrityState.isSubmitting
    /\ env.clock - integrityState.lastViolationTime >= 1000

\* C24: whenever the monitor is active and not submitting and the last
\* recorded violation is at least 1000 ms old, a raw signal (for a
\* fullscreen exit: while not re-entering) is recorded: the count grows by
\* one and one entry of the signal's type is appended to the ledger; and
\* a signal that is not recorded leaves the time of the last recorded
\* violation as it is.
C24_SignalRecorded ==
    integrityHandlers =>
        \A type \in SignalTypes :
            LET after == After(type).mon IN
            /\ (/\ Listening
                /\ type = "fullscreen-exit" => ~integrityState.isReentering)
               => /\ after.violations = integrityState.violations + 1
                  /\ Len(after.violationLog) = Len(Log) + 1
                  /\ SubSeq(after.violationLog, 1, Len(Log)) = Log
                  /\ after.violationLog[Len(Log) + 1].type = type
            /\ after.violations = integrityState.violations
               => /\ after.violationLog = Log
                  /\ after.lastViolationTime =
                         integrityState.lastViolationTime

\* A window blur was recorded exactly 1000 ms after a fullscreen exit.
C24_Witness ==
    /\ Len(Log) = 2
    /\ Log[1].type = "fullscreen-exit"
    /\ Log[2].type = "window-blur"
    /\ Log[2].timestamp - Log[1].timestamp = 1000
    /\ integrityState.lastViolationTime = Log[2].timestamp

\* C25: whenever the monitor is re-entering fullscreen, a fullscreen exit
\* that arrives leaves the count and the ledger as they are, while a tab
\* switch or a window blur is recorded if the monitor is active and not
\* submitting and the last recorded violation is at least 1000 ms old; and
\* no step taken from such a state appends a fullscreen exit to the ledger
\* of the same monitor session.
C25_ReenteringIgnoresExits ==
    /\ []((integrityHandlers /\ integrityState.isReentering) =>
            /\ After("fullscreen-exit").mon.violations =
                   integrityState.violations
            /\ After("fullscreen-exit").mon.violationLog = Log
            /\ \A type \in {"tab-switch", "window-blur"} :
                   Listening =>
                     /\ After(type).mon.violations =
                            integrityState.violations + 1
                     /\ After(type).mon.violationLog =
                            Append(Log, [type |-> type,
                                         timestamp |-> env.clock]))
    /\ [][(/\ integrityState.isReentering
            /\ obs'.monitorSession = obs.monitorSession
            /\ Len(integrityState'.violationLog) > Len(Log)) =>
              integrityState'.violationLog[Len(Log) + 1].type
                  # "fullscreen-exit"]_vars

\* A tab switch was recorded after a fullscreen exit whose re-entry timer
\* has not fired yet.
C25_Witness ==
    /\ integrityState.isReentering
    /\ timers.reentry = 1
    /\ Len(Log) = 2
    /\ Log[1].type = "fullscreen-exit"
    /\ Log[2].type = "tab-switch"

\* C26: the step that records a fullscreen exit below the threshold sets
\* isReentering and the timer of the re-entry; and whenever isReentering is
\* set it is cleared again, whether the re-entry succeeds or fails, the
\* browser has no fullscreen request, or the monitor was destroyed or
\* started submitting before the timer fired.
C26_ReentryEnds ==
    /\ [][(/\ obs'.monitorSession = obs.monitorSession
            /\ Len(integrityState'.violationLog) = Len(Log) + 1
            /\ integrityState'.violationLog[Len(Log) + 1].type
                   = "fullscreen-exit"
            /\ integrityState'.violations < Threshold) =>
              /\ integrityState'.isReentering
              /\ timers'.reentry = timers.reentry + 1]_vars
    /\ integrityState.isReentering ~> ~integrityState.isReentering

\* A fullscreen exit was recorded below the threshold, and the re-entry is
\* over: the flag is cleared, and no timer, request or promise is pending.
C26_Witness ==
    /\ Len(Log) = 1
    /\ Log[1].type = "fullscreen-exit"
    /\ integrityState.violations < Threshold
    /\ ~integrityState.isReentering
    /\ timers = NoTimers

\* C27: once the session is submitted (which destroys the monitor), no
\* countdown interval is scheduled, no timer of a fullscreen re-entry is
\* pending and no listener of the monitor is subscribed; and a pending
\* re-entry timer never outlives the monitor session that set it: while
\* one is pending the monitor is the one re-entering.
C27_TeardownCancels ==
    /\ state.isSubmitted =>
          /\ ~state.timerId
          /\ timers.leaked = 0
          /\ timers.reentry = 0
          /\ ~integrityHandlers
    /\ timers.reentry > 0 => integrityState.isReentering

\* C28: in every state in which the session is submitted the snapshot slot
\* is empty, whatever ticks, answers and navigations followed the
\* submission.
C28_SnapshotGoneOnceSubmitted ==
    state.isSubmitted => localStorage.session = Absent

\* The stored session was submitted, then the exam whose download had been
\* pending was started on the submitted session, and the countdown has
\* reached a second at which it saves.
C28_Witness ==
    /\ state.isSubmitted
    /\ Len(obs.results) = 1
    /\ obs.results[1].examId = "E2"
    /\ state.exam[1].examId = "E1"
    /\ state.timeLeft = 55
    /\ localStorage.session = Absent

\* C29: the step that builds a Result gives it the monitor's count and
\* ledger as they are when the monitor is destroyed in that step (for a
\* submission that the monitor did not trigger itself: as they were before
\* the step), the count being the number of ledger entries, and leaves the
\* monitor destroyed; a Result of type auto-violation carries as many
\* violations as the threshold; and no later step, whatever it does to
\* the monitor, changes the Result.
C29_IntegritySnapshot ==
    /\ [][\A r \in (Len(obs.results) + 1) .. Len(obs'.results) :
            LET result == obs'.results[r] IN
            /\ result.integrity.violations = integrityState'.violations
            /\ result.integrity.violationLog = integrityState'.violationLog
            /\ result.integrity.violations =
                   Len(result.integrity.violationLog)
            /\ result.submission.type # "auto-violation" =>
                   /\ result.integrity.violations = integrityState.violations
                   /\ result.integrity.violationLog = Log
            /\ result.submission.type = "auto-violation" =>
                   result.integrity.violations =
                       integrityConfig'.violationThreshold
            /\ ~integrityState'.isActive
            /\ ~integrityHandlers'
            /\ integrityCallbacks' = NoCallbacks]_vars
    /\ [][obs'.justLoaded = <<>> =>
            \A r \in DOMAIN obs.results :
                /\ r \in DOMAIN obs'.results
                /\ obs'.results[r] = obs.results[r]]_vars

\* A Result built with one violation in its ledger, and a monitor session
\* initialised after it that has recorded violations of its own.
C29_Witness ==
    /\ Len(obs.results) = 1
    /\ obs.results[1].integrity.violations = 1
    /\ Len(obs.results[1].integrity.violationLog) = 1
    /\ obs.monitorSession = 2
    /\ integrityState.violations = 1
    /\ Log # obs.results[1].integrity.violationLog

\* What startExam has to leave for the exam it was given.
Started(exam) ==
    /\ state'.exam = <<exam>>
    /\ state'.timeLeft = exam.settings.duration[1] * 60
    /\ state'.timing.startedAt = env.clock
    /\ state'.answers = <<>>
    /\ state'.currentQIndex = 0
    /\ ~state'.isSubmitted
    /\ localStorage'.session = <<Stringify(state')>>
    /\ integrityHandlers'
    /\ integrityState'.isActive
    /\ ~integrityState'.isSubmitting
    /\ integrityState'.violations = 0
    /\ integrityState'.violationLog = <<>>
    /\ integrityConfig'.violationThreshold =
           exam.settings.violationThreshold[1]
    /\ integrityConfig'.autoSubmitOnViolation =
           exam.settings.autoSubmitOnViolation
    /\ integrityCallbacks'.onAutoSubmit = <<"submit">>

\* C30: the step in which a downloaded exam is started leaves timeLeft at
\* the exam's duration in minutes times 60, startedAt at the time of the
\* step, no answers, currentQIndex 0, the session not submitted, a
\* snapshot of that session in the snapshot slot, and the monitor active
\* and listening with count 0 and an empty ledger, configured with the
\* exam's threshold and auto-submit setting, its only auto-submit callback
\* being the one that submits with type auto-violation.
C30_StartSession ==
    [][(/\ page.fetching # <<>>
        /\ page'.fetching = <<>>
        /\ obs'.monitorSession = obs.monitorSession + 1)
          => Started(page.fetching[1])]_vars

\* A session is running: the exam screen is shown and the session has not
\* been submitted.
Running == page.screen = "exam" /\ ~state.isSubmitted

\* The timeLeft of the stored snapshot.
PersistedTimeLeft == localStorage.session[1].timeLeft[1]

\* C31: while a session is running a snapshot is stored, and its timeLeft
\* is at least the session's and at most 4 seconds more; a tick of a
\* running session that leaves a multiple of 5 seconds, and does not end
\* the session, leaves the snapshot of the session as it then is.
C31_CrashLossBound ==
    Running =>
        /\ localStorage.session # Absent
        /\ localStorage.session[1].parsable
        /\ localStorage.session[1].exam = state.exam
        /\ PersistedTimeLeft - state.timeLeft \in 0 .. SAVE_EVERY - 1
        /\ (state.timerId \/ timers.leaked > 0) =>
             LET after == TimerCallback(World)
             IN  (/\ JsMod(after.state.timeLeft, SAVE_EVERY) = 0
                  /\ ~after.state.isSubmitted) =>
                     after.localStorage.session = <<Stringify(after.state)>>

\* Four ticks after the one that stored the snapshot: a crash now loses 4
\* seconds of the countdown.
C31_Witness ==
    /\ Running
    /\ state.timerId
    /\ state.timeLeft < state.timing.durationAllowed * SECONDS_PER_MINUTE
    /\ JsMod(state.timeLeft, SAVE_EVERY) = 1
    /\ PersistedTimeLeft = state.timeLeft + SAVE_EVERY - 1

\* An interval is scheduled: the countdown can tick.
Ticking == state.timerId \/ timers.leaked > 0

\* C32: the timeLeft of a started or resumed session is never negative; at
\* most one interval is scheduled, none once timeLeft has reached 0 or the
\* session is submitted, and a tick takes exactly 1 from timeLeft.
C32_TimeLeftNeverNegative ==
    state.exam # <<>> =>
        /\ state.timeLeft >= 0
        /\ timers.leaked = 0
        /\ Ticking => (state.timeLeft > 0 /\ ~state.isSubmitted)
        /\ Ticking =>
             TimerCallback(World).state.timeLeft = state.timeLeft - 1

\* C33: count is the length of the ledger in every state; in a step that
\* starts with the monitor active and not submitting, and in which init is
\* not called, either count and ledger are unchanged, or count grows by 1
\* and the ledger by one record at its end, the violation recorded in the
\* step.
C33_LedgerGrowsAtItsEnd ==
    /\ [](integrityState.violations = Len(Log))
    /\ [][(/\ integrityState.isActive
           /\ ~integrityState.isSubmitting
           /\ obs'.monitorSession = obs.monitorSession) =>
             \/ /\ integrityState'.violations = integrityState.violations
                /\ integrityState'.violationLog = Log
             \/ /\ integrityState'.violations = integrityState.violations + 1
                /\ \E type \in SignalTypes :
                     integrityState'.violationLog =
                         Append(Log, [type |-> type,
                                      timestamp |-> env.clock])]_vars

\* A second violation has been recorded behind the first one.
C33_Witness ==
    /\ integrityState.violations = 2
    /\ Len(Log) = 2
    /\ Log[1].timestamp < Log[2].timestamp

\* Configurations init is called with: each property takes two values.
InitConfigs ==
    {[autoSubmitOnViolation |-> TRUE, violationThreshold |-> 1,
      strictMode |-> FALSE],
     [autoSubmitOnViolation |-> FALSE, violationThreshold |-> 2,
      strictMode |-> TRUE]}

\* exam-integrity.js:486-529  what the listener of the signal's class does
\* in world w when a violating signal arrives: the tab was hidden, the
\* window lost the focus while the tab is shown, or fullscreen was left.
Signal(w, type) ==
    CASE type = "tab-switch" -> VisibilityChangeHandler(w, TRUE)
      [] type = "window-blur" -> BlurHandler(w, FALSE)
      [] type = "fullscreen-exit" -> FullscreenChangeHandler(w, FALSE)

\* C34: in every state, whatever the monitor has gone through (never
\* started, active, submitting, re-entering, callbacks registered),
\* init(config) leaves the monitor active with count 0, an empty ledger,
\* not submitting, not re-entering, configured as asked, one listener on
\* each signal class and both callback registries empty; and the signal
\* that arrives next is recorded without any callback being invoked.
C34_InitStartsAfresh ==
    \A config \in InitConfigs :
        LET after == IntegrityInit(World, config) IN
        /\ after.mon = MonitorState(TRUE)
        /\ after.handlers
        /\ after.page.listeners = 1
        /\ after.callbacks = NoCallbacks
        /\ after.config.autoSubmitOnViolation = config.autoSubmitOnViolation
        /\ after.config.violationThreshold = config.violationThreshold
        /\ after.config.strictMode = config.strictMode
        /\ \A type \in SignalTypes :
             LET later == Signal(after, type) IN
             /\ later.mon.violations = 1
             /\ later.obs.notified = <<>>
             /\ later.obs.autoSubmitted = <<>>
             /\ ~later.obs.escaped

\* init has run on a monitor that was re-entering fullscreen after a
\* recorded exit (the timer of the re-entry is still pending).
C34_Witness ==
    /\ obs.monitorSession = 2
    /\ timers.reentry > 0
    /\ integrityState = MonitorState(TRUE)
    /\ integrityHandlers
    /\ page.listeners = 1
    /\ integrityCallbacks = [onViolation |-> <<>>, onAutoSubmit |-> <<"submit">>]

\* The monitor is configured not to submit on violations.
Lenient == ~integrityConfig.autoSubmitOnViolation

\* C35: while autoSubmitOnViolation is off the monitor is not submitting; no
\* step taken from such a state invokes an auto-submit callback or leaves
\* the monitor submitting; and a signal that arrives while the monitor
\* listens is recorded and leaves it active, whatever the count is.
C35_NoAutoSubmitWhenOff ==
    /\ [](Lenient =>
            /\ ~integrityState.isSubmitting
            /\ integrityHandlers =>
                 \A type \in SignalTypes :
                     LET after == Signal(World, type) IN
                     /\ ~after.mon.isSubmitting
                     /\ after.obs.autoSubmitted = <<>>
                     /\ after.obs.autoSubmitCalls = obs.autoSubmitCalls
                     /\ (/\ Listening
                         /\ type = "fullscreen-exit" =>
                                ~integrityState.isReentering)
                        => /\ after.mon.violations =
                                  integrityState.violations + 1
                           /\ after.mon.isActive)
    /\ [][Lenient =>
            /\ ~integrityState'.isSubmitting
            /\ obs'.autoSubmitted = <<>>
            /\ obs'.autoSubmitCalls = 0]_vars

\* With auto-submit off, the count has passed the threshold and the
\* monitor still listens.
C35_Witness ==
    /\ Lenient
    /\ integrityState.violations > Threshold
    /\ integrityState.isActive
    /\ integrityHandlers
    /\ integrityCallbacks.onAutoSubmit = <<"submit">>
    /\ ~state.isSubmitted

\* The properties of a snapshot document.
SnapshotProperties ==
    {"parsable", "student", "exam", "currentQIndex", "answers", "timeLeft",
     "timing"}

\* The page as a reload leaves it now.
Reloaded == PageLoad(localStorage, env.clock, obs.lastSaved)

\* The session resumed on the reloaded page.
ResumedAfterReload == ResumeExam(Reloaded, Reloaded.page.resumeOffer[1])

\* C36: a stored snapshot holds nothing of the monitor; whenever a session
\* is running, a reload followed by Resume leaves the monitor active with
\* count 0 and an empty ledger, whatever was recorded before: a Result
\* built then reports no violation, and the signal that arrives next is
\* counted as the first, the monitor submitting on it exactly if
\* auto-submit is on and the threshold is 1.  Every step that starts or
\* resumes a session leaves count 0 and an empty ledger.
C36_ResumeStartsCountAfresh ==
    /\ [](localStorage.session # Absent =>
              DOMAIN localStorage.session[1] = SnapshotProperties)
    /\ [](Running =>
            /\ Reloaded.page.resumeOffer = localStorage.session
            /\ LET resumed == ResumedAfterReload
                   result == SubmitExam(Called(resumed, "manual"),
                                        FALSE, "manual").obs.results[1]
                   next == Signal(resumed, "tab-switch").mon
               IN  /\ resumed.mon = MonitorState(TRUE)
                   /\ result.integrity = [violations |-> 0,
                                          violationLog |-> <<>>]
                   /\ next.violations = 1
                   /\ next.isSubmitting <=>
                          /\ resumed.config.autoSubmitOnViolation
                          /\ resumed.config.violationThreshold = 1)
    /\ [][obs'.monitorSession = obs.monitorSession + 1 =>
            /\ integrityState'.violations = 0
            /\ integrityState'.violationLog = <<>>]_vars

\* A resumed session with a violation on its ledger and one to go before
\* the threshold: a reload now discards the violation.
C36_Witness ==
    /\ Running
    /\ obs.resumed
    /\ integrityState.violations = 1
    /\ Threshold = 2
    /\ ResumedAfterReload.mon.violations = 0

\* The sink named by the settings of the session's exam ("" when none).
SinkOfExam == state.exam[1].settings.webhookUrl

\* C37: whenever a session whose exam names a sink is running, started or
\* resumed, the submitter is configured with that sink, and submitting the
\* session now makes the submitter request the sink with the Result (at
\* least one attempt being allowed).
C37_ResumeDeliversAsStart ==
    (Running /\ SinkOfExam # "") =>
        /\ sheetsConfig.webhookUrl = SinkOfExam
        /\ sheetsConfig.maxRetries >= 1 =>
             LET submitted ==
                     SubmitExam(Called(World, "manual"), FALSE, "manual")
             IN  /\ submitted.delivery.phase = "fetching"
                 /\ submitted.delivery.resultData = submitted.obs.results[1]

\* The stored snapshot.
Snapshot == localStorage.session[1]

\* C38: whenever a session is running, the stored snapshot holds the
\* answers and the question index of the session as they are.
C38_AnswersSurviveCrash ==
    Running =>
        /\ localStorage.session # Absent
        /\ Snapshot.parsable
        /\ Snapshot.answers = <<state.answers>>
        /\ Snapshot.currentQIndex = <<state.currentQIndex>>

\* The resumed session has gone back to the first question and answered
\* it differently and the second question as well.
C38_Witness ==
    /\ Running
    /\ obs.resumed
    /\ state.currentQIndex = 0
    /\ DOMAIN state.answers = {"q1", "q2"}
    /\ state.answers["q1"] = "B"
    /\ Snapshot.answers = <<state.answers>>

\* The world with strict mode the other way round.
OtherMode(w) == [w EXCEPT !.config.strictMode = ~@]

\* Two worlds differ in strict mode at most.
SameButMode(a, b) ==
    [a EXCEPT !.config.strictMode = FALSE] =
        [b EXCEPT !.config.strictMode = FALSE]

Serving(r) ==
    webhook.run[r].pc \in
        {"getSheet", "insertSheet", "header", "parse", "appendRow"}

\* C40: no two executions of doPost are between tryLock and the finally
\* block at the same time, an execution that is there holds the script
\* lock, every row of the sheet was appended by an execution holding the
\* lock, and an execution that has returned does not hold the lock.
C40_DoPostSerialized ==
    /\ \A r1, r2 \in Requests : (Serving(r1) /\ Serving(r2)) => r1 = r2
    /\ \A r \in Requests : Serving(r) => webhook.lock = r
    /\ webhook.sheet # <<>> =>
           \A i \in DOMAIN webhook.sheet[1] : webhook.sheet[1][i].locked
    /\ \A r \in Requests :
           webhook.run[r].pc = "done" => webhook.lock # r

=============================================================================
